---- MODULE Spec2Model ----
(***************************************************************************)
(* Verification model of the 007pinball real-time core:                    *)
(*   - the fixed-timestep scheduler   (src/src/core/GameLoop.js)           *)
(*   - the hierarchical state machine (src/src/core/StateMachine.js)       *)
(*                                                                         *)
(* Each subsystem has its own specification (SpecLoop and SpecDispatch for *)
(* the scheduler, SpecSM for the state machine); the variables of the      *)
(* other subsystem stay at their initial values.                           *)
(*                                                                         *)
(* The scheduler's control flow is modelled with time as exact integer     *)
(* arithmetic in units of 1/TicksPerMs milliseconds.  SpecFloat models the *)
(* accumulator arithmetic as the rounded binary64 arithmetic JavaScript    *)
(* performs.                                                               *)
(***************************************************************************)
EXTENDS Integers, Sequences, FiniteSets, TLC

(***************************************************************************)
(* Bounds of the model                                                     *)
(***************************************************************************)
\* time resolution: units per millisecond (3 makes 1000/60 ms = 50 units)
TicksPerMs == 3
\* how many times the wall clock may advance in one behaviour
MaxAdvance == 3
\* how far a frame timestamp may trail performance.now() (units)
FrameLag == 10
\* registered callbacks per phase
MaxCallbacks == 2

(***************************************************************************)
(* GameLoop constants (constructor)                                        *)
(***************************************************************************)
FixedDeltaTime == (1000 * TicksPerMs) \div 60
MaxAccumulator == FixedDeltaTime * 5

\* a 10-second stall of the page, in units
Spike == 10000 * TicksPerMs

\* the amounts by which the wall clock advances between operations: less than
\* a step, between two and three steps, and a 10-second spike (above the cap)
TimeSteps ==
    { FixedDeltaTime \div 2 - 5, 2 * FixedDeltaTime + 30, Spike }

\* callback functions a client may register: one that returns normally and
\* one that throws each time it is called
CallbackFns == {"ok", "throws"}
Throws(cb) == cb = "throws"

VARIABLES
    \* ---- GameLoop fields
    isRunning, isPaused, lastTime, accumulator, frameId,
    updateCallbacks, renderCallbacks, lateUpdateCallbacks,
    \* ---- environment of the loop
    now,          \* performance.now()
    frameTime,    \* timestamp of the latest animation frame delivered
    nAdvance,     \* number of clock advances so far
    \* ---- observation of the loop (history variables)
    tickLog,      \* callback invocations of the loop() call that just ran
    tickInfo,     \* facts about the loop() call that just ran
    pauseInfo     \* the latest pause() and whether a resume() awaits its tick

loopVars == << isRunning, isPaused, lastTime, accumulator, frameId,
               updateCallbacks, renderCallbacks, lateUpdateCallbacks,
               now, frameTime, nAdvance,
               tickLog, tickInfo, pauseInfo >>

NoFrame == 0
Frame == 1

NoTick == [ran |-> FALSE, paused |-> FALSE, delta |-> 0, accBefore |-> 0,
           steps |-> 0, afterResume |-> FALSE, pausedFor |-> 0,
           sinceResume |-> 0, alpha |-> << 0, 1 >>, dispatches |-> << >>]

NoPause == [pausedAt |-> 0, resumedAt |-> 0, resumed |-> FALSE]

Min(a, b) == IF a <= b THEN a ELSE b

\* tickLog and tickInfo describe a loop() call only in the state it produces
Forget == tickLog' = << >> /\ tickInfo' = NoTick

(***************************************************************************)
(* constructor                                                             *)
(***************************************************************************)
LoopInitWith(updates, renders, lateUpdates) ==
    /\ isRunning = FALSE
    /\ isPaused = FALSE
    /\ lastTime = 0
    /\ accumulator = 0
    /\ frameId = NoFrame
    /\ updateCallbacks = updates
    /\ renderCallbacks = renders
    /\ lateUpdateCallbacks = lateUpdates
    /\ now = 0
    /\ frameTime = 0
    /\ nAdvance = 0
    /\ tickLog = << >>
    /\ tickInfo = NoTick
    /\ pauseInfo = NoPause

\* the scheduler as constructed: nothing registered
LoopInit == LoopInitWith(<< >>, << >>, << >>)

\* the scheduler as the application sets it up before start(): one update
\* callback (physics and game logic) and one render callback
AppInit == LoopInitWith(<< "ok" >>, << "ok" >>, << >>)

NumCallbacks ==
    Len(updateCallbacks) + Len(renderCallbacks) + Len(lateUpdateCallbacks)

(***************************************************************************)
(* onUpdate / onRender / onLateUpdate: push the callback                   *)
(***************************************************************************)
onUpdate(cb) ==
    /\ NumCallbacks < MaxCallbacks
    /\ updateCallbacks' = Append(updateCallbacks, cb)
    /\ Forget
    /\ UNCHANGED << isRunning, isPaused, lastTime, accumulator, frameId,
                    renderCallbacks, lateUpdateCallbacks, now, frameTime,
                    nAdvance, pauseInfo >>

onRender(cb) ==
    /\ NumCallbacks < MaxCallbacks
    /\ renderCallbacks' = Append(renderCallbacks, cb)
    /\ Forget
    /\ UNCHANGED << isRunning, isPaused, lastTime, accumulator, frameId,
                    updateCallbacks, lateUpdateCallbacks, now, frameTime,
                    nAdvance, pauseInfo >>

onLateUpdate(cb) ==
    /\ NumCallbacks < MaxCallbacks
    /\ lateUpdateCallbacks' = Append(lateUpdateCallbacks, cb)
    /\ Forget
    /\ UNCHANGED << isRunning, isPaused, lastTime, accumulator, frameId,
                    updateCallbacks, renderCallbacks, now, frameTime,
                    nAdvance, pauseInfo >>

(***************************************************************************)
(* start / stop / pause / resume                                           *)
(***************************************************************************)
start ==
    /\ Forget
    /\ IF isRunning
       THEN UNCHANGED << isRunning, isPaused, lastTime, accumulator, frameId,
                         pauseInfo >>
       ELSE /\ isRunning' = TRUE
            /\ isPaused' = FALSE
            /\ lastTime' = now
            /\ accumulator' = 0
            /\ frameId' = Frame
            /\ pauseInfo' = NoPause
    /\ UNCHANGED << updateCallbacks, renderCallbacks, lateUpdateCallbacks,
                    now, frameTime, nAdvance >>

stop ==
    /\ Forget
    /\ isRunning' = FALSE
    /\ frameId' = NoFrame
    /\ UNCHANGED << isPaused, lastTime, accumulator, updateCallbacks,
                    renderCallbacks, lateUpdateCallbacks, now, frameTime,
                    nAdvance, pauseInfo >>

pause ==
    /\ Forget
    /\ IF ~isPaused
       THEN /\ isPaused' = TRUE
            /\ pauseInfo' = [pausedAt |-> now, resumedAt |-> 0,
                             resumed |-> FALSE]
       ELSE UNCHANGED << isPaused, pauseInfo >>
    /\ UNCHANGED << isRunning, lastTime, accumulator, frameId,
                    updateCallbacks, renderCallbacks, lateUpdateCallbacks,
                    now, frameTime, nAdvance >>

\* resume() that only clears the paused flag
resumeKeepsClock ==
    /\ Forget
    /\ IF isPaused
       THEN /\ isPaused' = FALSE
            /\ pauseInfo' = [pauseInfo EXCEPT !.resumed = TRUE,
                                              !.resumedAt = now]
       ELSE UNCHANGED << isPaused, pauseInfo >>
    /\ UNCHANGED << isRunning, lastTime, accumulator, frameId,
                    updateCallbacks, renderCallbacks, lateUpdateCallbacks,
                    now, frameTime, nAdvance >>

\* resume() without the test of isPaused
resumeUnguarded ==
    /\ Forget
    /\ isPaused' = FALSE
    /\ lastTime' = now
    /\ accumulator' = 0
    /\ pauseInfo' = [pauseInfo EXCEPT !.resumed = TRUE, !.resumedAt = now]
    /\ UNCHANGED << isRunning, frameId, updateCallbacks, renderCallbacks,
                    lateUpdateCallbacks, now, frameTime, nAdvance >>

resume ==
    /\ Forget
    /\ IF isPaused
       THEN /\ isPaused' = FALSE
            /\ lastTime' = now
            /\ accumulator' = 0
            /\ pauseInfo' = [pauseInfo EXCEPT !.resumed = TRUE,
                                              !.resumedAt = now]
       ELSE UNCHANGED << isPaused, lastTime, accumulator, pauseInfo >>
    /\ UNCHANGED << isRunning, frameId, updateCallbacks, renderCallbacks,
                    lateUpdateCallbacks, now, frameTime, nAdvance >>

(***************************************************************************)
(* Callback dispatch: update(dt), lateUpdate(), render(alpha).             *)
(* Dispatch gives the callbacks that were invoked, in order, and whether   *)
(* an exception left the dispatching method.  Every call sits in its own   *)
(* try/catch, so every registered callback is invoked and nothing leaves.  *)
(***************************************************************************)
\* dispatch without the try/catch: the first throwing callback ends it
DispatchNoCatch(cbs) ==
    IF \E i \in 1..Len(cbs) : Throws(cbs[i])
    THEN LET first == CHOOSE i \in 1..Len(cbs) :
                         /\ Throws(cbs[i])
                         /\ \A j \in 1..(i - 1) : ~Throws(cbs[j])
         IN [invoked |-> SubSeq(cbs, 1, first), escaped |-> TRUE]
    ELSE [invoked |-> cbs, escaped |-> FALSE]

Dispatch(cbs) == [invoked |-> cbs, escaped |-> FALSE]

Calls(phase, cbs, arg) ==
    [i \in 1..Len(cbs) |-> [phase |-> phase, cb |-> cbs[i], arg |-> arg]]

update(dt) ==
    LET d == Dispatch(updateCallbacks)
    IN [log |-> Calls("update", d.invoked, dt), escaped |-> d.escaped]

lateUpdate ==
    LET d == Dispatch(lateUpdateCallbacks)
    IN [log |-> Calls("lateUpdate", d.invoked, 0), escaped |-> d.escaped]

\* alpha is the exact fraction accumulator / fixedDeltaTime, kept as the
\* pair << numerator, denominator >>
render(alpha) ==
    LET d == Dispatch(renderCallbacks)
    IN [log |-> Calls("render", d.invoked, alpha), escaped |-> d.escaped]

(***************************************************************************)
(* The catch-up loop of loop():                                            *)
(*   while (accumulator >= fixedDeltaTime) { update(fixed); acc -= fixed } *)
(* An exception leaving update() would leave loop() at that point.         *)
(***************************************************************************)
RECURSIVE CatchUp(_, _, _)
CatchUp(acc, log, steps) ==
    IF acc >= FixedDeltaTime
    THEN LET u == update(FixedDeltaTime)
         IN IF u.escaped
            THEN [acc |-> acc, log |-> log \o u.log, steps |-> steps + 1,
                  escaped |-> TRUE]
            ELSE CatchUp(acc - FixedDeltaTime, log \o u.log, steps + 1)
    ELSE [acc |-> acc, log |-> log, steps |-> steps, escaped |-> FALSE]

\* accumulation capped at ten steps instead of five
AccumulateLooseCap(deltaTime) == Min(deltaTime, 2 * MaxAccumulator)

\* the amount loop() adds to the accumulator
Accumulate(deltaTime) == Min(deltaTime, MaxAccumulator)

\* lateUpdate() called only after a fixed step ran
AdvanceLateAfterSteps(deltaTime) ==
    LET c == CatchUp(accumulator + Accumulate(deltaTime), << >>, 0)
    IN IF c.steps = 0 THEN c
       ELSE [acc |-> c.acc, log |-> c.log \o lateUpdate.log, steps |-> c.steps,
             escaped |-> c.escaped]

\* the part of loop() under  if (!this.isPaused)
Advance(deltaTime) ==
    LET c == CatchUp(accumulator + Accumulate(deltaTime), << >>, 0)
        l == lateUpdate
    IN IF c.escaped
       THEN c
       ELSE [acc |-> c.acc, log |-> c.log \o l.log, steps |-> c.steps,
             escaped |-> l.escaped]

\* a loop() that does not look at isPaused
PhasesIgnorePause(deltaTime) == Advance(deltaTime)

\* what loop() does with the accumulator and the update phases
Phases(deltaTime) ==
    IF isPaused
    THEN [acc |-> accumulator, log |-> << >>, steps |-> 0, escaped |-> FALSE]
    ELSE Advance(deltaTime)

(***************************************************************************)
(* loop(currentTime): one animation frame.                                 *)
(***************************************************************************)
loop(currentTime) ==
    /\ frameId = Frame
    /\ frameTime' = currentTime
    /\ IF ~isRunning
       THEN /\ Forget
            /\ UNCHANGED << lastTime, accumulator, pauseInfo >>
       ELSE LET deltaTime == currentTime - lastTime
                a == Phases(deltaTime)
                alpha == << a.acc, FixedDeltaTime >>
                r == IF a.escaped
                     THEN [log |-> << >>, escaped |-> TRUE]
                     ELSE render(alpha)
            IN /\ lastTime' = currentTime
               /\ accumulator' = a.acc
               /\ tickLog' = a.log \o r.log
               /\ tickInfo' =
                     [ran |-> TRUE, paused |-> isPaused, delta |-> deltaTime,
                      accBefore |-> accumulator, steps |-> a.steps,
                      afterResume |-> pauseInfo.resumed /\ ~isPaused,
                      pausedFor |-> IF pauseInfo.resumed /\ ~isPaused
                                    THEN pauseInfo.resumedAt
                                         - pauseInfo.pausedAt
                                    ELSE 0,
                      sinceResume |-> IF pauseInfo.resumed /\ ~isPaused
                                      THEN currentTime - pauseInfo.resumedAt
                                      ELSE 0,
                      alpha |-> alpha, dispatches |-> << >>]
               /\ pauseInfo' = IF isPaused THEN pauseInfo ELSE NoPause
    /\ UNCHANGED << isRunning, isPaused, frameId, updateCallbacks,
                    renderCallbacks, lateUpdateCallbacks, now, nAdvance >>

\* the wall clock advances
TimePasses(d) ==
    /\ nAdvance < MaxAdvance
    /\ nAdvance' = nAdvance + 1
    /\ now' = now + d
    /\ Forget
    /\ UNCHANGED << isRunning, isPaused, lastTime, accumulator, frameId,
                    updateCallbacks, renderCallbacks, lateUpdateCallbacks,
                    frameTime, pauseInfo >>

(***************************************************************************)
(* The unsubscribe functions that onUpdate / onRender / onLateUpdate       *)
(* return, and the record of the calls a client makes to the scheduler.    *)
(***************************************************************************)
\* how many registrations a client makes in one behaviour
MaxSubscriptions == 3

\* GameSettings.BALL_SAVE_TIME, in ms
BALL_SAVE_TIME == 10000

VARIABLES
    unsubscribes, \* the closures returned so far: phase, callback, whether called
    lifeInfo,     \* (history) the latest call to the scheduler and the fields before it
    ballSave,     \* GameLogic.ballSaveActive and the timeout of ballSaveTimer
    saveInfo      \* (history) fixed steps since startBallSave, and the expiry

ctlVars == << unsubscribes, lifeInfo, ballSave, saveInfo >>

Phases3 == {"update", "lateUpdate", "render"}

Fields ==
    [isRunning |-> isRunning, isPaused |-> isPaused, lastTime |-> lastTime,
     accumulator |-> accumulator, frameId |-> frameId]

NoLife ==
    [op |-> "none", prevOp |-> "none", before |-> << >>, emitted |-> << >>,
     stopTwice |-> FALSE]

NoSave == [started |-> FALSE, steps |-> 0, fired |-> FALSE,
           firedPaused |-> FALSE, firedAtStep |-> 0]

CtlInit ==
    /\ unsubscribes = << >>
    /\ lifeInfo = NoLife
    /\ ballSave = [active |-> FALSE, pending |-> FALSE, due |-> 0]
    /\ saveInfo = NoSave

\* startBallSave(): setTimeout(expire, BALL_SAVE_TIME)
startBallSave ==
    /\ ~saveInfo.started
    /\ ballSave' = [active |-> TRUE, pending |-> TRUE,
                    due |-> now + BALL_SAVE_TIME * TicksPerMs]
    /\ saveInfo' = [NoSave EXCEPT !.started = TRUE]

\* the timeout callback of startBallSave, run by the browser's timer once
\* BALL_SAVE_TIME of wall-clock time has passed
ballSaveExpires ==
    /\ ballSave.pending
    /\ now >= ballSave.due
    /\ ballSave' = [ballSave EXCEPT !.active = FALSE, !.pending = FALSE]
    /\ saveInfo' = [saveInfo EXCEPT !.fired = TRUE, !.firedPaused = isPaused,
                                    !.firedAtStep = saveInfo.steps]

\* the notification pause() and resume() emit
Emitted(op) ==
    IF op = "pause" /\ ~isPaused THEN << "system:pause" >>
    ELSE IF op = "resume" /\ isPaused THEN << "system:resume" >>
    ELSE << >>

Life(op) ==
    lifeInfo' = [op |-> op, prevOp |-> lifeInfo.op, before |-> Fields,
                 emitted |-> Emitted(op),
                 stopTwice |-> lifeInfo.stopTwice
                               \/ (op = "stop" /\ lifeInfo.op = "stop")]

\* indexOf and splice(index, 1)
RemoveFirst(seq, x) ==
    IF \E i \in DOMAIN seq : seq[i] = x
    THEN LET index == CHOOSE i \in DOMAIN seq :
                         seq[i] = x /\ \A j \in 1..(i - 1) : seq[j] # x
         IN SubSeq(seq, 1, index - 1) \o SubSeq(seq, index + 1, Len(seq))
    ELSE seq

\* the closure returned by a registration of callback for phase
unsubscribe(phase, callback) ==
    /\ updateCallbacks' = IF phase = "update"
                          THEN RemoveFirst(updateCallbacks, callback)
                          ELSE updateCallbacks
    /\ lateUpdateCallbacks' = IF phase = "lateUpdate"
                              THEN RemoveFirst(lateUpdateCallbacks, callback)
                              ELSE lateUpdateCallbacks
    /\ renderCallbacks' = IF phase = "render"
                          THEN RemoveFirst(renderCallbacks, callback)
                          ELSE renderCallbacks
    /\ Forget
    /\ UNCHANGED << isRunning, isPaused, lastTime, accumulator, frameId, now,
                    frameTime, nAdvance, pauseInfo >>

\* a registration and the closure it returns
subscribe(phase, callback) ==
    /\ Len(unsubscribes) < MaxSubscriptions
    /\ \/ phase = "update" /\ onUpdate(callback)
       \/ phase = "lateUpdate" /\ onLateUpdate(callback)
       \/ phase = "render" /\ onRender(callback)
    /\ unsubscribes' = Append(unsubscribes,
                              [phase |-> phase, cb |-> callback, called |-> FALSE])

(***************************************************************************)
(* loop(currentTime) when callbacks call back into the scheduler while it  *)
(* dispatches: a callback may call the unsubscribe function of its own     *)
(* registration, pause() or stop().  The for...of loops of update(),       *)
(* lateUpdate() and render() walk the live array by index.                 *)
(***************************************************************************)
ActingFns == {"ok", "unsubSelf", "pauses", "stops"}

\* the scheduler in the middle of a loop() call.  halted: pause() or stop()
\* has been called and neither resume() nor start() since; dispatches: for
\* each dispatch of a phase, the callbacks registered when it began, those
\* invoked and those unsubscribed during it
Within(acc) ==
    [cbs |-> [update |-> updateCallbacks, lateUpdate |-> lateUpdateCallbacks,
              render |-> renderCallbacks],
     isPaused |-> isPaused, isRunning |-> isRunning, frameId |-> Frame,
     acc |-> acc, steps |-> 0, log |-> << >>, halted |-> isPaused,
     pausedNow |-> FALSE, dispatches |-> << >>]

\* a dispatch of phase begins
Begin(st, phase) ==
    [st EXCEPT !.dispatches =
        Append(@, [phase |-> phase, atStart |-> st.cbs[phase],
                   invoked |-> << >>, removed |-> << >>])]

\* what the callback cb of phase does when it is called
Acts(st, phase, cb) ==
    IF cb = "unsubSelf"
    THEN [st EXCEPT !.cbs[phase] = RemoveFirst(@, cb),
                    !.dispatches[Len(st.dispatches)].removed = Append(@, cb)]
    ELSE IF cb = "pauses"
    THEN [st EXCEPT !.isPaused = TRUE, !.halted = TRUE,
                    !.pausedNow = @ \/ ~st.isPaused]
    ELSE IF cb = "stops"
    THEN [st EXCEPT !.isRunning = FALSE, !.frameId = NoFrame, !.halted = TRUE]
    ELSE st

\* callback(arg) for the callback at index i of the phase's array
Invoke(st, phase, arg, i) ==
    Acts([st EXCEPT !.log = Append(@, [phase |-> phase, cb |-> st.cbs[phase][i],
                                       arg |-> arg, halted |-> st.halted]),
                    !.dispatches[Len(st.dispatches)].invoked =
                        Append(@, st.cbs[phase][i])],
         phase, st.cbs[phase][i])

RECURSIVE Iterate(_, _, _, _)
\* for (const callback of array), from index i on
Iterate(st, phase, arg, i) ==
    IF i > Len(st.cbs[phase]) THEN st
    ELSE Iterate(Invoke(st, phase, arg, i), phase, arg, i + 1)

DispatchLive(st, phase, arg) == Iterate(Begin(st, phase), phase, arg, 1)

RECURSIVE CatchUpLive(_)
\* while (accumulator >= fixedDeltaTime) { update(fixed); acc -= fixed }
CatchUpLive(st) ==
    IF st.acc >= FixedDeltaTime
    THEN CatchUpLive([DispatchLive(st, "update", FixedDeltaTime)
                         EXCEPT !.acc = @ - FixedDeltaTime, !.steps = @ + 1])
    ELSE st

\* the part of loop() under  if (!this.isPaused)
AdvanceLive(deltaTime) ==
    DispatchLive(CatchUpLive(Within(accumulator + Accumulate(deltaTime))),
                 "lateUpdate", 0)

PhasesLive(deltaTime) ==
    IF isPaused THEN Within(accumulator) ELSE AdvanceLive(deltaTime)

RenderLive(st) == DispatchLive(st, "render", << st.acc, FixedDeltaTime >>)

loopLive(currentTime) ==
    /\ frameId = Frame
    /\ frameTime' = currentTime
    /\ IF ~isRunning
       THEN /\ Forget
            /\ UNCHANGED << isRunning, isPaused, lastTime, accumulator,
                            frameId, updateCallbacks, renderCallbacks,
                            lateUpdateCallbacks, pauseInfo >>
       ELSE LET deltaTime == currentTime - lastTime
                st == RenderLive(PhasesLive(deltaTime))
            IN /\ lastTime' = currentTime
               /\ accumulator' = st.acc
               /\ isPaused' = st.isPaused
               /\ isRunning' = st.isRunning
               /\ frameId' = st.frameId
               /\ updateCallbacks' = st.cbs["update"]
               /\ lateUpdateCallbacks' = st.cbs["lateUpdate"]
               /\ renderCallbacks' = st.cbs["render"]
               /\ tickLog' = st.log
               /\ tickInfo' =
                     [NoTick EXCEPT !.ran = TRUE, !.paused = isPaused,
                                    !.delta = deltaTime,
                                    !.accBefore = accumulator,
                                    !.steps = st.steps,
                                    !.alpha = << st.acc, FixedDeltaTime >>,
                                    !.dispatches = st.dispatches]
               /\ pauseInfo' = IF st.pausedNow
                               THEN [pausedAt |-> now, resumedAt |-> 0,
                                     resumed |-> FALSE]
                               ELSE IF isPaused THEN pauseInfo ELSE NoPause
    /\ UNCHANGED << now, nAdvance >>

(***************************************************************************)
(* The scheduler's arithmetic as JavaScript performs it.                   *)
(*                                                                         *)
(* Timestamps, deltaTime, accumulator and fixedDeltaTime are IEEE-754      *)
(* binary64 numbers: the result of every +, -, * and / is rounded to the   *)
(* nearest number with a 53-bit significand, ties going to the even        *)
(* significand.  A number v in [0, 256) that is a multiple of 2^-48 is     *)
(* kept exactly, as the pair << hi, lo >> with                             *)
(*      v = (hi * Limb + lo) * 2^-48   and   0 <= lo < Limb.               *)
(* 1000/60 lies in [16, 32), where binary64 numbers are the multiples of   *)
(* 2^-48; its multiples, and the sums and differences of such numbers,     *)
(* are multiples of 2^-48 too.                                             *)
(***************************************************************************)
\* how many frame periods (of one fixed step each) a behaviour covers
MaxFrames == 6

Limb == 2 ^ 26

Zero == << 0, 0 >>

Carry(hi, lo) == << hi + lo \div Limb, lo % Limb >>

\* the distance, in units of 2^-48, between neighbouring binary64 numbers
\* at the magnitude hi * Limb * 2^-48
Spacing(hi) ==
    IF hi < 2 ^ 27 THEN 1            \* below 32
    ELSE IF hi < 2 ^ 28 THEN 2       \* [32, 64)
    ELSE IF hi < 2 ^ 29 THEN 4       \* [64, 128)
    ELSE 8                           \* [128, 256)

\* round to nearest, ties to even
RoundD(x) ==
    LET g == Spacing(x[1])
        r == x[2] % g
        down == x[2] - r
        up == 2 * r > g \/ (2 * r = g /\ (down \div g) % 2 = 1)
    IN Carry(x[1], IF up THEN down + g ELSE down)

\* a + b
DAdd(a, b) == RoundD(Carry(a[1] + b[1], a[2] + b[2]))

\* a - b, for a >= b
DSub(a, b) ==
    RoundD(IF a[2] >= b[2]
           THEN << a[1] - b[1], a[2] - b[2] >>
           ELSE << a[1] - b[1] - 1, a[2] - b[2] + Limb >>)

\* k * a, for a small whole number k
DTimes(k, a) == RoundD(Carry(k * a[1], k * a[2]))

\* n / d, for small whole numbers whose quotient is below 32
DQuot(n, d) ==
    LET top == n * 2 ^ 22            \* n = top * Limb * 2^-48
        mid == (top % d) * Limb
        lo == mid \div d
        r == mid % d
        up == 2 * r > d \/ (2 * r = d /\ lo % 2 = 1)
    IN Carry(top \div d, IF up THEN lo + 1 ELSE lo)

\* a >= b
DGeq(a, b) == a[1] > b[1] \/ (a[1] = b[1] /\ a[2] >= b[2])

\* Math.min(a, b)
DMin(a, b) == IF DGeq(a, b) THEN b ELSE a

\* 1000 / 60 (the same quotient as 50 / 3, rounded once)
FixedDeltaTimeD == DQuot(50, 3)

\* this.fixedDeltaTime * 5
MaxAccumulatorD == DTimes(5, FixedDeltaTimeD)

VARIABLES
    runs    \* two schedulers, started together, each given its own frames

Runs == {"every frame", "some frames"}

\* the timestamp of the k-th frame of a display refreshing once per fixed
\* step: k * fixedDeltaTime
FrameAt(k) == DTimes(k, FixedDeltaTimeD)

\* start() at performance.now() = 0: lastTime and the accumulator are 0
startD ==
    [frame |-> 0, lastTime |-> Zero, accumulator |-> Zero, updates |-> 0]

RunsInit == runs = [r \in Runs |-> startD]

\* while (accumulator >= fixedDeltaTime) { update(); accumulator -= fixed }
RECURSIVE CatchUpD(_, _)
CatchUpD(acc, steps) ==
    IF DGeq(acc, FixedDeltaTimeD)
    THEN CatchUpD(DSub(acc, FixedDeltaTimeD), steps + 1)
    ELSE [acc |-> acc, steps |-> steps]

\* loop(currentTime) of a running scheduler that is not paused: the
\* accumulator and the number of update(fixedDeltaTime) dispatches
loopD(run, k) ==
    LET currentTime == FrameAt(k)
        deltaTime == DSub(currentTime, run.lastTime)
        c == CatchUpD(DAdd(run.accumulator,
                           DMin(deltaTime, MaxAccumulatorD)), 0)
    IN [frame |-> k, lastTime |-> currentTime, accumulator |-> c.acc,
        updates |-> run.updates + c.steps]

\* scheduler r gets the k-th frame, having got none since an earlier one;
\* no delta exceeds maxAccumulator
FrameD(r, k) ==
    /\ k > runs[r].frame
    /\ DGeq(MaxAccumulatorD, DSub(FrameAt(k), runs[r].lastTime))
    /\ runs' = [runs EXCEPT ![r] = loopD(@, k)]

(***************************************************************************)
(* Physics world (PhysicsEngine.js, HardwareConfig.js, CollisionSystem.js) *)
(*                                                                         *)
(* Lengths and velocities are kept in 1/1000 pixel (per tick), angles and  *)
(* angular velocities in 1/10 degree (per tick), so that the program's     *)
(* constants are whole numbers; a product that is no whole number of these *)
(* units is rounded to the nearest one.                                    *)
(***************************************************************************)
\* how many balls the world holds
MaxBalls == 1
\* how many balls a behaviour creates in all
MaxCreated == 3
\* the largest velocity component a command may leave on a ball
VelocityBound == 30000
\* where the count of ticks a flipper has been held stops
MaxHeld == 5

GRAVITY == 120
BALL_RADIUS == 12000
FLIPPER_ANGULAR_VEL == 180
FLIPPER_MAX_ANGLE == 450
FLIPPER_REST_ANGLE == -250
\* 0.998, in 1/1000
BALL_FRICTION == 998
MAX_VELOCITY == 28000
LAUNCH_VELOCITY_MIN == 12000
LAUNCH_VELOCITY_MAX == 22000
\* per mille
BOUNCE_DAMPING == 650
BUMPER_KICK == 10000

SHOOTER_LANE == [x |-> 750000, y |-> 1100000, width |-> 40000, height |-> 150000]

DRAIN == [x |-> 300000, y |-> 1180000, width |-> 200000, height |-> 30000]

\* PlayfieldConfig.WIDTH is 800 and HEIGHT 1200
bounds == [left |-> 50000, right |-> 750000, top |-> 50000, bottom |-> 1200000]

Null == "null"

\* the zones of the parts of the table the model follows a ball in, in the
\* order of the zone table; 0 0 is the absent normal of a circle
CollisionZones ==
    << [name |-> "bumper_left", type |-> "circle", x |-> 250000, y |-> 280000,
        radius |-> 28000, w |-> 0, h |-> 0, normal |-> << 0, 0 >>,
        capturesBall |-> FALSE, kicks |-> TRUE, kickStrength |-> BUMPER_KICK],
       [name |-> "left_bank_1", type |-> "rect", x |-> 70000, y |-> 500000,
        radius |-> 0, w |-> 18000, h |-> 35000, normal |-> << 1, 0 >>,
        capturesBall |-> FALSE, kicks |-> FALSE, kickStrength |-> 0],
       [name |-> "scoop", type |-> "circle", x |-> 150000, y |-> 550000,
        radius |-> 25000, w |-> 0, h |-> 0, normal |-> << 0, 0 >>,
        capturesBall |-> TRUE, kicks |-> FALSE, kickStrength |-> 0],
       [name |-> "left_ramp_enter", type |-> "rect", x |-> 120000, y |-> 650000,
        radius |-> 0, w |-> 50000, h |-> 20000, normal |-> << 0, 1 >>,
        capturesBall |-> FALSE, kicks |-> FALSE, kickStrength |-> 0] >>

\* The part of the table around the scoop in which nothing but the scoop can
\* touch a ball: the walls, the flippers, the drain and every other zone of
\* the table are more than a ball radius away from it.
NearScoop(x, y) ==
    /\ x >= 100000 /\ x <= 187000
    /\ y >= 300000 /\ y <= 637000

\* the part around bumper_left in which nothing but that bumper can touch a ball
NearBumper(x, y) ==
    /\ x >= 215000 /\ x <= 285000
    /\ y >= 225000 /\ y <= 335000

\* the part around left_ramp_enter in which nothing but that zone can touch a ball
NearRamp(x, y) ==
    /\ x >= 133000 /\ x <= 187000
    /\ y >= 638000 /\ y <= 669000

\* the part below the flippers and the outlane guides, around the drain, in
\* which no wall, flipper or zone can touch a ball
NearDrain(x, y) ==
    /\ x >= 200000 /\ x <= 600000
    /\ y >= 1110000 /\ y <= 1300000

\* the part around left_bank_1 in which nothing but that target, and to its
\* right the scoop's part, can touch a ball
NearBank(x, y) ==
    /\ x >= 62000 /\ x <= 100000
    /\ y >= 503000 /\ y <= 560000

InWindow(x, y) ==
    \/ NearScoop(x, y)
    \/ NearBumper(x, y)
    \/ NearRamp(x, y)
    \/ NearDrain(x, y)
    \/ NearBank(x, y)

\* where createBall puts a ball
BallStarts == { << 150000, 505000 >>, << 176000, 520000 >> }
\* where it puts one above the drain, and one beside it
DrainStarts == { << 400000, 1175000 >>, << 250000, 1175000 >> }
\* where it puts one on the zones: above bumper_left, one tick above its
\* centre, beside it, inside left_ramp_enter, above that zone, inside
\* left_bank_1, to the right of that target, and below it
ZoneStarts ==
    { << 250000, 245000 >>, << 250000, 279880 >>, << 280000, 262000 >>,
      << 150000, 655000 >>, << 150000, 639000 >>,
      << 79000, 517000 >>, << 99000, 517000 >>, << 79000, 545000 >> }
\* what applyImpulse is called with
Impulses == { << 0, -14000 >>, << 4200, -14000 >> }
\* what Ball.release is called with
ReleaseVelocities ==
    { << 0, 0 >>, << 0, -28000 >>, << 20000, -20000 >>, << -30000, 0 >> }

VARIABLES
    balls,            \* PhysicsEngine.balls
    leftFlipper,      \* PhysicsEngine.leftFlipper
    rightFlipper,     \* PhysicsEngine.rightFlipper
    plungerPower,     \* in 1/100
    plungerCharging,
    physInfo          \* (history) the latest command or tick and the world before it

physVars == << balls, leftFlipper, rightFlipper, plungerPower, plungerCharging,
               physInfo >>

Abs(n) == IF n < 0 THEN -n ELSE n

\* n / d rounded to the nearest whole number (d > 0)
RoundDiv(n, d) == (2 * n + d) \div (2 * d)

RECURSIVE SqrtBetween(_, _, _)
\* the largest s in lo..hi with s * s <= n
SqrtBetween(n, lo, hi) ==
    IF lo = hi THEN lo
    ELSE LET mid == (lo + hi + 1) \div 2
         IN IF mid * mid <= n THEN SqrtBetween(n, mid, hi)
                              ELSE SqrtBetween(n, lo, mid - 1)

\* Math.sqrt, to the whole number below
Sqrt(n) == SqrtBetween(n, 0, 46340)

NoRelease == [i |-> 0, captor |-> Null]

NoOp ==
    [op |-> "none", balls |-> << >>, released |-> NoRelease, held |-> -1,
     issued |-> << >>, drained |-> << >>, spent |-> 0]

Ball(x, y, id) ==
    [id |-> id, x |-> x, y |-> y, prevX |-> x, prevY |-> y, vx |-> 0, vy |-> 0,
     active |-> TRUE, captured |-> FALSE, capturedBy |-> Null, nan |-> FALSE]

\* speed > MAX_VELOCITY, for the velocity (vx, vy)
TooFast(vx, vy) ==
    \/ Abs(vx) > MAX_VELOCITY
    \/ Abs(vy) > MAX_VELOCITY
    \/ vx * vx > MAX_VELOCITY * MAX_VELOCITY - vy * vy

\* nan: the position and the velocity are NaN, and stay so
ballUpdate(b) ==
    IF ~b.active \/ b.captured \/ b.nan THEN b
    ELSE LET vx1 == RoundDiv(b.vx * BALL_FRICTION, 1000)
             vy1 == RoundDiv((b.vy + GRAVITY) * BALL_FRICTION, 1000)
             speed == Sqrt(vx1 * vx1 + vy1 * vy1)
             vx == IF TooFast(vx1, vy1)
                   THEN RoundDiv(vx1 * MAX_VELOCITY, speed) ELSE vx1
             vy == IF TooFast(vx1, vy1)
                   THEN RoundDiv(vy1 * MAX_VELOCITY, speed) ELSE vy1
         IN [b EXCEPT !.prevX = b.x, !.prevY = b.y, !.vx = vx, !.vy = vy,
                      !.x = b.x + vx, !.y = b.y + vy]

applyImpulse(b, ix, iy) == [b EXCEPT !.vx = @ + ix, !.vy = @ + iy]

ballCapture(b, captor) ==
    [b EXCEPT !.captured = TRUE, !.capturedBy = captor, !.vx = 0, !.vy = 0]

ballRelease(b, vx, vy) ==
    [b EXCEPT !.captured = FALSE, !.capturedBy = Null, !.vx = vx, !.vy = vy]

Flipper(isLeft) ==
    LET restAngle == IF isLeft THEN FLIPPER_REST_ANGLE
                               ELSE 1800 - FLIPPER_REST_ANGLE
        maxAngle == IF isLeft THEN FLIPPER_REST_ANGLE + FLIPPER_MAX_ANGLE
                              ELSE 1800 - (FLIPPER_REST_ANGLE + FLIPPER_MAX_ANGLE)
    IN [isLeft |-> isLeft, restAngle |-> restAngle, maxAngle |-> maxAngle,
        angle |-> restAngle, targetAngle |-> restAngle, angularVelocity |-> 0,
        isPressed |-> FALSE]

flipperPress(f) == [f EXCEPT !.isPressed = TRUE, !.targetAngle = f.maxAngle]

flipperRelease(f) == [f EXCEPT !.isPressed = FALSE, !.targetAngle = f.restAngle]

\* Flipper.update that does not stop at the target
flipperUpdateOvershoots(f) ==
    LET angleDiff == f.targetAngle - f.angle
        angularSpeed == FLIPPER_ANGULAR_VEL
        velocity == IF angleDiff > 0
                    THEN (IF f.isLeft THEN angularSpeed ELSE -angularSpeed)
                    ELSE (IF f.isLeft THEN -((angularSpeed * 6) \div 10)
                                      ELSE (angularSpeed * 6) \div 10)
    IN IF Abs(angleDiff) * 10000 < 57296
       THEN [f EXCEPT !.angle = f.targetAngle, !.angularVelocity = 0]
       ELSE [f EXCEPT !.angularVelocity = velocity, !.angle = f.angle + velocity]

\* Flipper.update that strikes at the speed of the return sweep
flipperUpdateSlowStrike(f) ==
    LET angleDiff == f.targetAngle - f.angle
        angularSpeed == (FLIPPER_ANGULAR_VEL * 6) \div 10
        velocity == IF (angleDiff > 0) = f.isLeft THEN angularSpeed
                                                  ELSE -angularSpeed
        moved == f.angle + velocity
        passed == \/ f.isLeft /\ angleDiff > 0 /\ moved > f.targetAngle
                  \/ ~f.isLeft /\ angleDiff > 0 /\ moved < f.targetAngle
                  \/ f.isLeft /\ angleDiff <= 0 /\ moved < f.targetAngle
                  \/ ~f.isLeft /\ angleDiff <= 0 /\ moved > f.targetAngle
    IN IF Abs(angleDiff) * 10000 < 57296
       THEN [f EXCEPT !.angle = f.targetAngle, !.angularVelocity = 0]
       ELSE [f EXCEPT !.angularVelocity = velocity,
                      !.angle = IF passed THEN f.targetAngle ELSE moved]

\* 0.01 rad is 5.7296 tenths of a degree
flipperUpdate(f) ==
    LET angleDiff == f.targetAngle - f.angle
        angularSpeed == FLIPPER_ANGULAR_VEL
    IN IF Abs(angleDiff) * 10000 < 57296
       THEN [f EXCEPT !.angle = f.targetAngle, !.angularVelocity = 0]
       ELSE IF angleDiff > 0
       THEN LET velocity == IF f.isLeft THEN angularSpeed ELSE -angularSpeed
                moved == f.angle + velocity
            IN [f EXCEPT !.angularVelocity = velocity,
                         !.angle = IF \/ f.isLeft /\ moved > f.targetAngle
                                      \/ ~f.isLeft /\ moved < f.targetAngle
                                   THEN f.targetAngle ELSE moved]
       ELSE LET velocity == IF f.isLeft THEN -((angularSpeed * 6) \div 10)
                                        ELSE (angularSpeed * 6) \div 10
                moved == f.angle + velocity
            IN [f EXCEPT !.angularVelocity = velocity,
                         !.angle = IF \/ f.isLeft /\ moved < f.targetAngle
                                      \/ ~f.isLeft /\ moved > f.targetAngle
                                   THEN f.targetAngle ELSE moved]

\* 0.1 rad is 57.296 tenths of a degree
isMovingUp(f) ==
    IF f.isLeft THEN f.angularVelocity * 1000 > 57296
                ELSE f.angularVelocity * 1000 < -57296

Max(a, b) == IF a >= b THEN a ELSE b

\* dist < minDist in checkCircleCollision; no comparison with NaN holds
checkCircleCollision(b, zone) ==
    LET dx == b.x - zone.x
        dy == b.y - zone.y
        minDist == BALL_RADIUS + zone.radius
    IN /\ ~b.nan
       /\ Abs(dx) < minDist
       /\ Abs(dy) < minDist
       /\ dx * dx < minDist * minDist - dy * dy

\* Push ball out, reflect velocity, of both checkCircleCollision and
\* checkRectCollision: (nx, ny) is the unit normal in 1/1000
Bounce(b, nx, ny, overlap, kick) ==
    LET dot == RoundDiv(b.vx * nx + b.vy * ny, 1000)
        vx == RoundDiv((b.vx - RoundDiv(2 * dot * nx, 1000)) * BOUNCE_DAMPING, 1000)
        vy == RoundDiv((b.vy - RoundDiv(2 * dot * ny, 1000)) * BOUNCE_DAMPING, 1000)
    IN [b EXCEPT !.x = @ + RoundDiv(nx * overlap, 1000),
                 !.y = @ + RoundDiv(ny * overlap, 1000),
                 !.vx = vx + RoundDiv(nx * kick, 1000),
                 !.vy = vy + RoundDiv(ny * kick, 1000)]

\* the body of checkCircleCollision when dist < minDist: dx / dist is 0 / 0
\* when the ball's centre is the zone's, and the position and the velocity
\* become NaN
circleBounce(b, zone) ==
    LET dx == b.x - zone.x
        dy == b.y - zone.y
        dist == Sqrt(dx * dx + dy * dy)
    IN IF dx = 0 /\ dy = 0 THEN [b EXCEPT !.nan = TRUE]
       ELSE Bounce(b, RoundDiv(dx * 1000, dist), RoundDiv(dy * 1000, dist),
                   BALL_RADIUS + zone.radius - dist,
                   IF zone.kicks THEN zone.kickStrength ELSE 0)

\* closest point on rect to ball
Closest(b, zone) ==
    << Max(zone.x, Min(b.x, zone.x + zone.w)),
       Max(zone.y, Min(b.y, zone.y + zone.h)) >>

\* dist < ball.radius in checkRectCollision
checkRectCollision(b, zone) ==
    LET dx == b.x - Closest(b, zone)[1]
        dy == b.y - Closest(b, zone)[2]
    IN /\ ~b.nan
       /\ Abs(dx) < BALL_RADIUS
       /\ Abs(dy) < BALL_RADIUS
       /\ dx * dx < BALL_RADIUS * BALL_RADIUS - dy * dy

\* the body of checkRectCollision when dist < ball.radius; with the centre
\* inside the rectangle dist is 0 and the normal is zone.normal?.x || 0,
\* zone.normal?.y || -1
rectBounce(b, zone) ==
    LET dx == b.x - Closest(b, zone)[1]
        dy == b.y - Closest(b, zone)[2]
        dist == Sqrt(dx * dx + dy * dy)
        nx == IF dx = 0 /\ dy = 0
              THEN 1000 * zone.normal[1]
              ELSE RoundDiv(dx * 1000, dist)
        ny == IF dx = 0 /\ dy = 0
              THEN 1000 * (IF zone.normal[2] # 0 THEN zone.normal[2] ELSE -1)
              ELSE RoundDiv(dy * 1000, dist)
    IN Bounce(b, nx, ny, BALL_RADIUS - dist, 0)

checkZoneCollision(b, zone) ==
    IF zone.type = "circle" THEN checkCircleCollision(b, zone)
                            ELSE checkRectCollision(b, zone)

\* the ball as checkZoneCollision leaves it when it returns true
zoneBounce(b, zone) ==
    IF zone.type = "circle" THEN circleBounce(b, zone) ELSE rectBounce(b, zone)

\* the capture of handleZoneHit; it overwrites the position and the velocity
\* that the bounce computed
handleZoneHit(b, zone) ==
    IF zone.capturesBall
    THEN [ballCapture(b, zone.name) EXCEPT !.x = zone.x, !.y = zone.y,
                                           !.nan = FALSE]
    ELSE b

RECURSIVE checkZoneCollisions(_, _)
\* the zones from the k-th on
checkZoneCollisions(b, k) ==
    IF k > Len(CollisionZones) THEN b
    ELSE checkZoneCollisions(
             IF checkZoneCollision(b, CollisionZones[k])
             THEN handleZoneHit(zoneBounce(b, CollisionZones[k]), CollisionZones[k])
             ELSE b, k + 1)

\* the condition of checkDrain; no comparison with NaN holds
Drains(b) ==
    /\ ~b.nan
    /\ b.x > DRAIN.x
    /\ b.x < DRAIN.x + DRAIN.width
    /\ b.y > DRAIN.y

checkDrainKeepsActive(b) == b

checkDrain(b) == IF Drains(b) THEN [b EXCEPT !.active = FALSE] ELSE b

\* one ball's share of PhysicsEngine.update
StepBall(b) ==
    IF ~b.active \/ b.captured THEN b
    ELSE checkDrain(checkZoneCollisions(ballUpdate(b), 1))

\* the ids of the BALL_DRAINED signals of one update, in the order of the balls
RECURSIVE DrainSignals(_)
DrainSignals(k) ==
    IF k > Len(balls) THEN << >>
    ELSE (IF balls[k].active /\ ~balls[k].captured
             /\ Drains(checkZoneCollisions(ballUpdate(balls[k]), 1))
          THEN << balls[k].id >> ELSE << >>) \o DrainSignals(k + 1)

\* the first ball that satisfies Test, 0 if there is none (Array.find)
Find(Test(_)) ==
    IF \E i \in DOMAIN balls : Test(balls[i])
    THEN CHOOSE i \in DOMAIN balls :
            Test(balls[i]) /\ \A j \in 1..(i - 1) : ~Test(balls[j])
    ELSE 0

InShooter(b) ==
    /\ b.active
    /\ b.x > SHOOTER_LANE.x - 20000
    /\ b.y > SHOOTER_LANE.y - 50000

PhysInit ==
    /\ balls = << >>
    /\ leftFlipper = Flipper(TRUE)
    /\ rightFlipper = Flipper(FALSE)
    /\ plungerPower = 0
    /\ plungerCharging = FALSE
    /\ physInfo = NoOp

\* the release that came just before this command or tick, if one did
LastRelease ==
    IF physInfo.op \in {"release", "eject"} THEN physInfo.released ELSE NoRelease

\* issued: the ids createBall has given out; drained: the ids of the
\* BALL_DRAINED signals
\* spent: the eject commands that listeners of the contact signal issued
\* during the tick
Seen(op, released, held) ==
    [op |-> op, balls |-> balls, left |-> leftFlipper,
     right |-> rightFlipper, released |-> released, held |-> held,
     issued |-> IF op = "createBall"
                THEN Append(physInfo.issued, Len(balls))
                ELSE physInfo.issued,
     drained |-> IF op = "update"
                 THEN physInfo.drained \o DrainSignals(1)
                 ELSE physInfo.drained,
     spent |-> 0]

Did(op, released, held) == physInfo' = Seen(op, released, held)

\* createBall(x, y) with (x, y) one of starts
createBallAt(starts) ==
    /\ Len(balls) < MaxBalls
    /\ Len(physInfo.issued) < MaxCreated
    /\ \E p \in starts : balls' = Append(balls, Ball(p[1], p[2], Len(balls)))
    /\ Did("createBall", LastRelease, physInfo.held)
    /\ UNCHANGED << leftFlipper, rightFlipper, plungerPower, plungerCharging >>

createBall == createBallAt(BallStarts)

createBallNearDrain == createBallAt(DrainStarts)

createBallOnZone == createBallAt(ZoneStarts)

removeBall ==
    /\ \E i \in DOMAIN balls :
          balls' = SubSeq(balls, 1, i - 1) \o SubSeq(balls, i + 1, Len(balls))
    /\ Did("removeBall", NoRelease, physInfo.held)
    /\ UNCHANGED << leftFlipper, rightFlipper, plungerPower, plungerCharging >>

reset ==
    /\ balls' = << >>
    /\ plungerPower' = 0
    /\ plungerCharging' = FALSE
    /\ leftFlipper' = flipperRelease(leftFlipper)
    /\ rightFlipper' = flipperRelease(rightFlipper)
    /\ Did("reset", NoRelease, -1)

createBallInShooter ==
    /\ Len(balls) < MaxBalls
    /\ balls' = Append(balls, Ball(SHOOTER_LANE.x + SHOOTER_LANE.width \div 2,
                                   SHOOTER_LANE.y, Len(balls)))
    /\ Did("createBall", LastRelease, physInfo.held)
    /\ UNCHANGED << leftFlipper, rightFlipper, plungerPower, plungerCharging >>

\* the balls that have drained
Drained == { i \in DOMAIN balls : ~balls[i].active }

\* applyImpulse on a ball that has drained
ImpulseIdle ==
    /\ \E i \in Drained, p \in Impulses :
          /\ Abs(balls[i].vx + p[1]) <= VelocityBound
          /\ Abs(balls[i].vy + p[2]) <= VelocityBound
          /\ balls' = [balls EXCEPT ![i] = applyImpulse(@, p[1], p[2])]
    /\ Did("applyImpulse", LastRelease, physInfo.held)
    /\ UNCHANGED << leftFlipper, rightFlipper, plungerPower, plungerCharging >>

\* the balls that are held
Held == { i \in DOMAIN balls : balls[i].captured }

\* the model calls applyImpulse and Ball.release on balls that are held
ImpulseBall ==
    /\ \E i \in Held, p \in Impulses :
          /\ Abs(balls[i].vx + p[1]) <= VelocityBound
          /\ Abs(balls[i].vy + p[2]) <= VelocityBound
          /\ balls' = [balls EXCEPT ![i] = applyImpulse(@, p[1], p[2])]
    /\ Did("applyImpulse", LastRelease, physInfo.held)
    /\ UNCHANGED << leftFlipper, rightFlipper, plungerPower, plungerCharging >>

launchBall ==
    /\ LET i == Find(InShooter)
           power == LAUNCH_VELOCITY_MIN +
                    ((LAUNCH_VELOCITY_MAX - LAUNCH_VELOCITY_MIN) * plungerPower) \div 100
       IN IF i # 0
          THEN /\ balls' = [balls EXCEPT ![i].vy = -power, ![i].vx = -2000]
               /\ plungerPower' = 0
          ELSE UNCHANGED << balls, plungerPower >>
    /\ Did("launchBall", LastRelease, physInfo.held)
    /\ UNCHANGED << leftFlipper, rightFlipper, plungerCharging >>

ejectCapturedBall(captor, power) ==
    /\ LET CapturedBy(b) == b.captured /\ b.capturedBy = captor
           i == Find(CapturedBy)
           ejectSpeed == IF power THEN 15000 ELSE 10000
       IN IF i # 0
          THEN /\ balls' = [balls EXCEPT ![i] = ballRelease(@, 0, -ejectSpeed)]
               /\ Did("eject", [i |-> i, captor |-> balls[i].capturedBy],
                      physInfo.held)
          ELSE /\ UNCHANGED balls
               /\ Did("eject", NoRelease, physInfo.held)
    /\ UNCHANGED << leftFlipper, rightFlipper, plungerPower, plungerCharging >>

Eject == \E power \in BOOLEAN : ejectCapturedBall("scoop", power)

ReleaseBall ==
    /\ \E i \in Held, v \in ReleaseVelocities :
          /\ balls' = [balls EXCEPT ![i] = ballRelease(@, v[1], v[2])]
          /\ Did("release", [i |-> i, captor |-> balls[i].capturedBy],
                 physInfo.held)
    /\ UNCHANGED << leftFlipper, rightFlipper, plungerPower, plungerCharging >>

pressLeftFlipper ==
    /\ leftFlipper' = flipperPress(leftFlipper)
    /\ Did("pressLeft", LastRelease,
           IF leftFlipper.isPressed THEN physInfo.held
           ELSE IF leftFlipper.angle = leftFlipper.restAngle THEN 0 ELSE -1)
    /\ UNCHANGED << balls, rightFlipper, plungerPower, plungerCharging >>

releaseLeftFlipper ==
    /\ leftFlipper' = flipperRelease(leftFlipper)
    /\ Did("releaseLeft", LastRelease, -1)
    /\ UNCHANGED << balls, rightFlipper, plungerPower, plungerCharging >>

pressRightFlipper ==
    /\ rightFlipper' = flipperPress(rightFlipper)
    /\ Did("pressRight", LastRelease, physInfo.held)
    /\ UNCHANGED << balls, leftFlipper, plungerPower, plungerCharging >>

releaseRightFlipper ==
    /\ rightFlipper' = flipperRelease(rightFlipper)
    /\ Did("releaseRight", LastRelease, physInfo.held)
    /\ UNCHANGED << balls, leftFlipper, plungerPower, plungerCharging >>

\* PhysicsEngine.update; the model follows a ball only inside the window
physicsUpdate ==
    /\ \A i \in DOMAIN balls :
          (balls[i].active /\ ~balls[i].captured /\ ~balls[i].nan) =>
              /\ InWindow(balls[i].x, balls[i].y)
              /\ InWindow(ballUpdate(balls[i]).x, ballUpdate(balls[i]).y)
    /\ leftFlipper' = flipperUpdate(leftFlipper)
    /\ rightFlipper' = flipperUpdate(rightFlipper)
    /\ plungerPower' = IF plungerCharging THEN Min(100, plungerPower + 2)
                                          ELSE plungerPower
    /\ balls' = [i \in DOMAIN balls |-> StepBall(balls[i])]
    /\ Did("update", LastRelease,
           IF physInfo.held < 0 THEN -1 ELSE Min(MaxHeld, physInfo.held + 1))
    /\ UNCHANGED plungerCharging

\* ejectCapturedBall(captor) on the list bs
EjectIn(bs, captor) ==
    IF \E j \in DOMAIN bs : bs[j].captured /\ bs[j].capturedBy = captor
    THEN [bs EXCEPT ![CHOOSE j \in DOMAIN bs :
                        /\ bs[j].captured /\ bs[j].capturedBy = captor
                        /\ \A m \in 1..(j - 1) :
                               ~(bs[m].captured /\ bs[m].capturedBy = captor)]
                    = ballRelease(@, 0, -10000)]
    ELSE bs

\* handleZoneHit on ball i when a listener of the contact signal fires the
\* scoop's eject coil at once (SwitchMatrix.handleCollision, GameLogic
\* handleScoop, SolenoidDriver.fire, PhysicsEngine.handleCoilFired, all of
\* them synchronous): the signal is emitted, and the listener runs, before
\* the capture
HitThenEject(bs, i, zone) ==
    [(IF zone.name = "scoop" THEN EjectIn(bs, "scoop") ELSE bs)
        EXCEPT ![i] = handleZoneHit(@, zone)]

RECURSIVE ZonesListening(_, _, _, _)
\* checkZoneCollisions of ball i, from the k-th zone on, with that listener
ZonesListening(bs, i, k, spent) ==
    IF k > Len(CollisionZones) THEN [balls |-> bs, spent |-> spent]
    ELSE IF checkZoneCollision(bs[i], CollisionZones[k])
    THEN ZonesListening(
             HitThenEject([bs EXCEPT ![i] = zoneBounce(@, CollisionZones[k])],
                          i, CollisionZones[k]),
             i, k + 1,
             spent + (IF CollisionZones[k].name = "scoop" THEN 1 ELSE 0))
    ELSE ZonesListening(bs, i, k + 1, spent)

RECURSIVE BallsListening(_, _, _)
RECURSIVE DrainListening(_, _)
\* the loop over the balls of PhysicsEngine.update, from the i-th ball on
BallsListening(bs, i, spent) ==
    IF i > Len(bs) THEN [balls |-> bs, spent |-> spent]
    ELSE IF ~bs[i].active \/ bs[i].captured
    THEN BallsListening(bs, i + 1, spent)
    ELSE DrainListening(
             ZonesListening([bs EXCEPT ![i] = ballUpdate(@)], i, 1, spent), i)

\* checkDrain of ball i, and the balls after it
DrainListening(r, i) ==
    BallsListening([r.balls EXCEPT ![i] = checkDrain(@)], i + 1, r.spent)

\* PhysicsEngine.update while that listener is subscribed
physicsUpdateListening ==
    /\ \A i \in DOMAIN balls :
          (balls[i].active /\ ~balls[i].captured /\ ~balls[i].nan) =>
              /\ InWindow(balls[i].x, balls[i].y)
              /\ InWindow(ballUpdate(balls[i]).x, ballUpdate(balls[i]).y)
    /\ leftFlipper' = flipperUpdate(leftFlipper)
    /\ rightFlipper' = flipperUpdate(rightFlipper)
    /\ plungerPower' = IF plungerCharging THEN Min(100, plungerPower + 2)
                                          ELSE plungerPower
    /\ balls' = BallsListening(balls, 1, 0).balls
    /\ physInfo' = [Seen("update", LastRelease,
                         IF physInfo.held < 0 THEN -1
                         ELSE Min(MaxHeld, physInfo.held + 1))
                        EXCEPT !.spent = BallsListening(balls, 1, 0).spent]
    /\ UNCHANGED plungerCharging

(***************************************************************************)
(* Hierarchical state machine (StateMachine.js)                            *)
(*                                                                         *)
(* The forest registered at setup (addState, addChild):                    *)
(*      a                b                                                 *)
(*     / \               |                                                 *)
(*    a1  a2             b1                                                *)
(*    |                                                                    *)
(*    a11                                                                  *)
(* A state is identified by its name; "x" names nothing.  A state path     *)
(* "a.a1.a11" is kept as the sequence of its segments.                     *)
(***************************************************************************)
\* how many calls a client makes to the machine in one behaviour
MaxCalls == 3
\* how many hook invocations of one call have a scripted behaviour
MaxTape == 3

\* how many history records a behaviour of SpecHistory makes
MaxRecords == 25
\* how many of them the client chooses freely before it repeats itself
FreeRecords == 3

MaxHistory == 20

None == "none"
States == {"a", "a1", "a11", "a2", "b", "b1"}
Roots == {"a", "b"}

parent ==
    [s \in States |->
        CASE s \in {"a1", "a2"} -> "a"
          [] s = "a11" -> "a1"
          [] s = "b1" -> "b"
          [] OTHER -> None]

Children(s) == {c \in States : parent[c] = s}

\* the paths clients pass to transition()
TopPaths ==
    { << "a" >>, << "b" >>, << "a", "a1" >>, << "a", "a1", "a11" >>,
      << "a", "a2" >>, << "b", "b1" >>, << "x" >>, << "a", "x" >> }

\* the paths hooks pass to transition()
HookPaths == { << "b" >>, << "a", "a1", "a11" >> }

(***************************************************************************)
(* What a hook (client code) does when it is invoked: return, throw, call  *)
(* transition(path) and return, or (onEvent) return true.  The behaviours  *)
(* of the successive hook invocations of one call are its tape; once the   *)
(* tape is used up hooks just return.                                      *)
(***************************************************************************)
Quiet == [kind |-> "none", path |-> << >>]
Throw == [kind |-> "throw", path |-> << >>]
Handle == [kind |-> "handle", path |-> << >>]
Req(p) == [kind |-> "req", path |-> p]

HookActs == {Quiet, Throw} \cup {Req(p) : p \in HookPaths}
EventActs == HookActs \cup {Handle}

Tapes(acts) == UNION {[1..n -> acts] : n \in 0..MaxTape}

VARIABLES
    \* ---- StateMachine fields
    currentState, activeChild, transitioning, eventQueue, history,
    \* ---- observation of the machine (history variables)
    callInfo,     \* the client call that just ran, and the state it found
    callLog,      \* what that call did, in order
    nCalls,       \* client calls so far
    recorded      \* (SpecHistory) every path passed to recordHistory, in order

smVars == << currentState, activeChild, transitioning, eventQueue, history,
             callInfo, callLog, nCalls, recorded >>

vars == << loopVars, ctlVars, runs, physVars, smVars >>

NoCall == [op |-> "none", arg |-> << >>, preState |-> None,
           preChain |-> << >>, threw |-> FALSE, ret |-> FALSE]

\* constructor, then addState / addChild of the forest
SMInit ==
    /\ currentState = None
    /\ activeChild = [s \in States |-> None]
    /\ transitioning = FALSE
    /\ eventQueue = << >>
    /\ history = << >>
    /\ callInfo = NoCall
    /\ callLog = << >>
    /\ nCalls = 0
    /\ recorded = << >>

(***************************************************************************)
(* The methods are operators on a record m of the machine's fields plus    *)
(* what a call carries along: the log, the rest of the tape, the number of *)
(* the next transition() request, whether an exception is propagating and  *)
(* the value the last hook returned.                                       *)
(***************************************************************************)
Ev(ev, state, rid, note) ==
    [ev |-> ev, state |-> state, rid |-> rid, note |-> note]

RECURSIVE Deepest(_, _)
Deepest(m, s) ==
    IF m.activeChild[s] = None THEN s ELSE Deepest(m, m.activeChild[s])

\* the active chain from state s down to the deepest active descendant
RECURSIVE Chain(_, _)
Chain(m, s) ==
    IF s = None THEN << >>
    ELSE << s >> \o Chain(m, m.activeChild[s])

RECURSIVE Hook(_, _, _, _)
RECURSIVE transition(_, _, _)
RECURSIVE TransitionBody(_, _, _)
RECURSIVE processEventQueue(_)
RECURSIVE ExitWalk(_, _, _)
RECURSIVE exitCurrentState(_, _)
RECURSIVE exitChild(_, _, _)
RECURSIVE enterChild(_, _, _, _)
RECURSIVE enterNestedState(_, _, _, _)

\* a call of transition(path) made by client code running for request rid
Request(m, path, rid) ==
    LET new == m.nextId
        m1 == [m EXCEPT !.nextId = @ + 1,
                        !.log = Append(@, Ev("request", None, new,
                                   IF m.transitioning THEN "queued"
                                   ELSE "direct"))]
    IN transition(m1, path, new)

\* state s is the current root or in the chain of active children under it
InChain(m, s) ==
    \E i \in DOMAIN Chain(m, m.currentState) : Chain(m, m.currentState)[i] = s

\* state.onEnter / onExit / onUpdate / onEvent: client code; the log keeps
\* whether the state was active when the hook was invoked
Hook(m, kind, s, rid) ==
    LET act == IF m.tape = << >> THEN Quiet ELSE Head(m.tape)
        m1 == [m EXCEPT !.tape = IF @ = << >> THEN @ ELSE Tail(@),
                        !.log = Append(@, [ev |-> kind, state |-> s,
                                           rid |-> rid, note |-> act.kind,
                                           active |-> InChain(m, s)]),
                        !.ret = act.kind \in {"handle", "req"}]
    IN CASE act.kind = "throw" -> [m1 EXCEPT !.thrown = TRUE]
         [] act.kind = "req" ->
               [Request(m1, act.path, rid) EXCEPT !.ret = TRUE]
         [] OTHER -> m1

\* recordHistory that never evicts
recordHistoryUnbounded(m, statePath, rid) ==
    [m EXCEPT !.history = Append(@, [state |-> statePath]),
              !.log = Append(@, Ev("record", None, rid, "history"))]

\* (rid only tags the log entry)
recordHistory(m, statePath, rid) ==
    LET h == Append(m.history, [state |-> statePath])
    IN [m EXCEPT !.history = IF Len(h) > MaxHistory THEN Tail(h) ELSE h,
                 !.log = Append(@, Ev("record", None, rid, "history"))]

\* sequencing: F runs unless an exception is propagating
Then(m, F(_)) == IF m.thrown THEN m ELSE F(m)

\* State.exitChild
exitChild(m, s, rid) ==
    IF m.activeChild[s] # None
    THEN Then(Then(IF m.activeChild[m.activeChild[s]] # None
                   THEN exitChild(m, m.activeChild[s], rid)
                   ELSE m,
                   LAMBDA x : Hook(x, "onExit", x.activeChild[s], rid)),
              LAMBDA x : [x EXCEPT !.activeChild[s] = None])
    ELSE m

\* enterChild without its first statement: the current child is not exited
enterChildKeepsPrevious(m, s, stateName, rid) ==
    IF stateName \in Children(s)
    THEN Hook([m EXCEPT !.activeChild[s] = stateName],
              "onEnter", stateName, rid)
    ELSE m

\* State.enterChild
enterChild(m, s, stateName, rid) ==
    Then(IF m.activeChild[s] # None THEN exitChild(m, s, rid) ELSE m,
         LAMBDA x :
            IF stateName \in Children(s)
            THEN Hook([x EXCEPT !.activeChild[s] = stateName],
                      "onEnter", stateName, rid)
            ELSE x)

enterNestedState(m, parentState, pathParts, rid) ==
    IF pathParts = << >> THEN m
    ELSE IF Head(pathParts) \in Children(parentState)
         THEN Then(enterChild(m, parentState, Head(pathParts), rid),
                   LAMBDA x :
                      enterNestedState(x, x.activeChild[parentState],
                                       Tail(pathParts), rid))
         ELSE m

\* the second loop of exitCurrentState:
\*   while (state && state !== this.currentState.parent)
ExitWalk(m, state, rid) ==
    IF state # None /\ state # parent[m.currentState]
    THEN Then(Hook(m, "onExit", state, rid),
              LAMBDA x : ExitWalk(x, parent[state], rid))
    ELSE m

exitCurrentState(m, rid) ==
    IF m.currentState # None
    THEN Then(ExitWalk(m, Deepest(m, m.currentState), rid),
              LAMBDA x :
                 IF x.currentState # None
                 THEN Hook(x, "onExit", x.currentState, rid)
                 ELSE x)
    ELSE m

\* transition(): the block under  if (newState)
EnterRoot(m, statePath, rid) ==
    Then(Then(Hook([m EXCEPT !.currentState = Head(statePath)],
                   "onEnter", Head(statePath), rid),
              LAMBDA x :
                 IF Len(statePath) > 1
                 THEN enterNestedState(x, Head(statePath), Tail(statePath),
                                       rid)
                 ELSE x),
         LAMBDA x : recordHistory(x, statePath, rid))

\* the try block of transition()
TransitionBody(m, statePath, rid) ==
    IF m.currentState # None /\ m.currentState # Head(statePath)
    THEN Then(exitCurrentState(m, rid),
              LAMBDA x :
                 IF Head(statePath) \in Roots
                 THEN EnterRoot(x, statePath, rid)
                 ELSE x)
    ELSE IF m.currentState # None /\ Len(statePath) > 1
         THEN Then(enterNestedState(m, m.currentState, Tail(statePath),
                                    rid),
                   LAMBDA x : recordHistory(x, statePath, rid))
         ELSE m

\* processEventQueue taking the newest request first
processEventQueueLifo(m) ==
    IF m.eventQueue # << >> /\ ~m.transitioning
    THEN LET n == Len(m.eventQueue)
             item == m.eventQueue[n]
         IN Then(transition([m EXCEPT !.eventQueue = SubSeq(@, 1, n - 1)],
                            item.statePath, item.rid),
                 LAMBDA x : processEventQueue(x))
    ELSE m

processEventQueue(m) ==
    IF m.eventQueue # << >> /\ ~m.transitioning
    THEN LET item == Head(m.eventQueue)
         IN Then(transition([m EXCEPT !.eventQueue = Tail(@)],
                            item.statePath, item.rid),
                 LAMBDA x : processEventQueue(x))
    ELSE m

\* the two statements after the try block without the finally: an exception
\* of the try block skips them
FinallyOnlyOnSuccess(tried, rid) ==
    IF tried.thrown THEN tried
    ELSE processEventQueue(
             [tried EXCEPT !.transitioning = FALSE,
                           !.log = Append(@, Ev("end", None, rid, ""))])

\* finally { this.transitioning = false; this.processEventQueue(); }
\* after a try block that ended as `tried`: an exception of either block
\* leaves transition()
Finally(tried, rid) ==
    [processEventQueue(
        [tried EXCEPT !.transitioning = FALSE, !.thrown = FALSE,
                      !.log = Append(@, Ev("end", None, rid, ""))])
     EXCEPT !.thrown = tried.thrown \/ @]

\* the guarded part of transition(): this.transitioning = true; try { ... }
\* finally { ... }
Guarded(m, statePath, rid) ==
    Finally(TransitionBody(
                [m EXCEPT !.transitioning = TRUE,
                          !.log = Append(@, Ev("begin", None, rid, ""))],
                statePath, rid),
            rid)

\* transition() without the busy flag test
transitionUnguarded(m, statePath, rid) == Guarded(m, statePath, rid)

transition(m, statePath, rid) ==
    IF m.transitioning
    THEN [m EXCEPT !.eventQueue =
                      Append(@, [type |-> "transition",
                                 statePath |-> statePath, rid |-> rid])]
    ELSE Guarded(m, statePath, rid)

\* StateMachine.start
machineStart(m, stateName) ==
    IF stateName \in Roots
    THEN Then(Hook([m EXCEPT !.currentState = stateName],
                   "onEnter", stateName, 0),
              LAMBDA x : recordHistory(x, << stateName >>, 0))
    ELSE m

\* the bubbling loop of sendEvent
RECURSIVE Bubble(_, _)
Bubble(m, state) ==
    IF state # None
    THEN Then(Hook(m, "onEvent", state, 0),
              LAMBDA x : IF x.ret THEN x ELSE Bubble(x, parent[state]))
    ELSE [m EXCEPT !.ret = FALSE]

\* sendEvent that starts at the root instead of the deepest active state
sendEventAtRoot(m) ==
    IF m.currentState = None THEN [m EXCEPT !.ret = FALSE]
    ELSE Bubble(m, m.currentState)

sendEvent(m) ==
    IF m.currentState = None THEN [m EXCEPT !.ret = FALSE]
    ELSE Bubble(m, Deepest(m, m.currentState))

\* the for loop of update over the chain collected beforehand
RECURSIVE UpdateEach(_, _)
UpdateEach(m, activeStates) ==
    IF activeStates = << >> THEN m
    ELSE Then(Hook(m, "onUpdate", Head(activeStates), 0),
              LAMBDA x : UpdateEach(x, Tail(activeStates)))

\* update that reaches the root state only
machineUpdateRootOnly(m) ==
    IF m.currentState = None THEN m
    ELSE UpdateEach(m, << m.currentState >>)

machineUpdate(m) ==
    IF m.currentState = None THEN m
    ELSE UpdateEach(m, Chain(m, m.currentState))

(***************************************************************************)
(* Client calls.  A call runs to completion in one step; Return is the     *)
(* client going on after it, which ends the observation of that call.      *)
(* A behaviour holds up to MaxCalls calls whose hooks all just return,     *)
(* and ends with at most one call whose hooks follow a tape.               *)
(***************************************************************************)
Machine(tape) ==
    [currentState |-> currentState, activeChild |-> activeChild,
     transitioning |-> transitioning, eventQueue |-> eventQueue,
     history |-> history, log |-> << >>, tape |-> tape, nextId |-> 1,
     thrown |-> FALSE, ret |-> FALSE]

Idle == callInfo.op = "none" /\ nCalls < MaxCalls

Ran(op, arg, tape, m) ==
    /\ Idle
    /\ nCalls' = IF tape = << >> THEN nCalls + 1 ELSE MaxCalls
    /\ currentState' = m.currentState
    /\ activeChild' = m.activeChild
    /\ transitioning' = m.transitioning
    /\ eventQueue' = m.eventQueue
    /\ history' = m.history
    /\ callLog' = m.log
    /\ callInfo' = [op |-> op, arg |-> arg, preState |-> currentState,
                    preChain |-> Chain(Machine(<< >>), currentState),
                    threw |-> m.thrown, ret |-> m.ret]
    /\ UNCHANGED recorded

CallStart(stateName, tape) ==
    Ran("start", << stateName >>, tape,
        machineStart(Machine(tape), stateName))

CallTransition(statePath, tape) ==
    Ran("transition", statePath, tape,
        Request(Machine(tape), statePath, 0))

CallSendEvent(tape) ==
    Ran("sendEvent", << >>, tape, sendEvent(Machine(tape)))

CallUpdate(tape) ==
    Ran("update", << >>, tape, machineUpdate(Machine(tape)))

Return ==
    /\ callInfo.op # "none"
    /\ callInfo' = NoCall
    /\ callLog' = << >>
    /\ UNCHANGED << currentState, activeChild, transitioning, eventQueue,
                    history, nCalls, recorded >>

(***************************************************************************)
(* Specifications of the scheduler.  A frame's timestamp is the wall clock *)
(* or trails it by FrameLag (the timestamp is taken when the frame begins, *)
(* start() and resume() read performance.now() when they are called), and  *)
(* frame timestamps never decrease.                                        *)
(*                                                                         *)
(* SpecLoop explores the timing of the scheduler as the application sets   *)
(* it up; SpecDispatch explores the registrations, with a clock that       *)
(* advances by one amount only.                                            *)
(***************************************************************************)
Register ==
    /\ \E cb \in CallbackFns : onUpdate(cb) \/ onRender(cb) \/ onLateUpdate(cb)
    /\ UNCHANGED << ctlVars, runs, physVars, smVars >>

Start == start /\ UNCHANGED << ctlVars, runs, physVars, smVars >>

Stop == stop /\ UNCHANGED << ctlVars, runs, physVars, smVars >>

Pause == pause /\ UNCHANGED << ctlVars, runs, physVars, smVars >>

Resume == resume /\ UNCHANGED << ctlVars, runs, physVars, smVars >>

Tick ==
    /\ \E lag \in {0, FrameLag} : now - lag >= frameTime /\ loop(now - lag)
    /\ UNCHANGED << ctlVars, runs, physVars, smVars >>

ClockAdvance == (\E d \in TimeSteps : TimePasses(d)) /\ UNCHANGED << ctlVars, runs, physVars, smVars >>

SteadyAdvance == TimePasses(2 * FixedDeltaTime + 30) /\ UNCHANGED << ctlVars, runs, physVars, smVars >>

LoopNext == Start \/ Stop \/ Pause \/ Resume \/ Tick \/ ClockAdvance

InitLoop == AppInit /\ CtlInit /\ RunsInit /\ PhysInit /\ SMInit

SpecLoop == InitLoop /\ [][LoopNext]_vars

RegisterActing ==
    /\ \E cb \in ActingFns : onUpdate(cb) \/ onRender(cb) \/ onLateUpdate(cb)
    /\ UNCHANGED << ctlVars, runs, physVars, smVars >>

TickLive ==
    /\ \E lag \in {0, FrameLag} : now - lag >= frameTime /\ loopLive(now - lag)
    /\ UNCHANGED << ctlVars, runs, physVars, smVars >>

DispatchNext ==
    Register \/ Start \/ Stop \/ Pause \/ Resume \/ Tick \/ SteadyAdvance

Init == LoopInit /\ CtlInit /\ RunsInit /\ PhysInit /\ SMInit

SpecDispatch == Init /\ [][DispatchNext]_vars

\* callbacks that act on the scheduler from inside its dispatch
ReentrantNext ==
    RegisterActing \/ Start \/ Resume \/ TickLive \/ SteadyAdvance

SpecReentrant == Init /\ [][ReentrantNext]_vars

(***************************************************************************)
(* Specification of the state machine: a client starts it and then calls   *)
(* transition, sendEvent and update, with any hook behaviours.             *)
(***************************************************************************)
MachineStart ==
    /\ Idle
    /\ \E stateName \in Roots \cup {"x"}, tape \in Tapes(HookActs) :
          CallStart(stateName, tape)
    /\ UNCHANGED << ctlVars, loopVars, runs, physVars >>

MachineTransition ==
    /\ Idle
    /\ \E statePath \in TopPaths, tape \in Tapes(HookActs) :
          CallTransition(statePath, tape)
    /\ UNCHANGED << ctlVars, loopVars, runs, physVars >>

MachineSendEvent ==
    /\ Idle
    /\ \E tape \in Tapes(EventActs) : CallSendEvent(tape)
    /\ UNCHANGED << ctlVars, loopVars, runs, physVars >>

MachineUpdate ==
    /\ Idle
    /\ \E tape \in Tapes(HookActs) : CallUpdate(tape)
    /\ UNCHANGED << ctlVars, loopVars, runs, physVars >>

MachineReturn == Return /\ UNCHANGED << ctlVars, loopVars, runs, physVars >>

SMNext ==
    \/ MachineStart
    \/ MachineTransition
    \/ MachineSendEvent
    \/ MachineUpdate
    \/ MachineReturn

SpecSM == Init /\ [][SMNext]_vars

(***************************************************************************)
(* Specification of the history ring: a client starts the machine and      *)
(* makes transitions whose hooks just return; after FreeRecords recorded   *)
(* transitions it repeats its latest FreeRecords ones, over and over.      *)
(***************************************************************************)
\* the paths the client of SpecHistory passes to transition()
HistoryPaths ==
    { << "a" >>, << "b" >>, << "a", "a1" >>, << "a", "a2" >>,
      << "b", "b1" >> }

\* a call that ran and returned: the machine and the record it made, if any
Recorded(m, statePath) ==
    /\ Len(recorded) < MaxRecords
    /\ currentState' = m.currentState
    /\ activeChild' = m.activeChild
    /\ transitioning' = m.transitioning
    /\ eventQueue' = m.eventQueue
    /\ history' = m.history
    /\ recorded' = IF \E i \in DOMAIN m.log : m.log[i].ev = "record"
                   THEN Append(recorded, statePath)
                   ELSE recorded
    /\ UNCHANGED << ctlVars, callInfo, callLog, nCalls, loopVars, runs, physVars >>

HistoryStart ==
    /\ currentState = None
    /\ \E stateName \in Roots :
          Recorded(machineStart(Machine(<< >>), stateName), << stateName >>)

HistoryTransition ==
    /\ currentState # None
    /\ \E statePath \in HistoryPaths :
          /\ Len(recorded) >= FreeRecords =>
                statePath = recorded[Len(recorded) + 1 - FreeRecords]
          /\ Recorded(Request(Machine(<< >>), statePath, 0), statePath)

HistoryNext == HistoryStart \/ HistoryTransition

SpecHistory == Init /\ [][HistoryNext]_vars

(***************************************************************************)
(* Specifications of the scheduler's interface: SpecSubscribe registers    *)
(* callbacks and calls the unsubscribe functions; SpecLifecycle makes the  *)
(* lifecycle calls in any order.                                           *)
(***************************************************************************)
Rest == UNCHANGED << ballSave, saveInfo, runs, physVars, smVars >>

Subscribe ==
    /\ \E phase \in Phases3, cb \in CallbackFns : subscribe(phase, cb)
    /\ UNCHANGED lifeInfo
    /\ Rest

Unsubscribe ==
    /\ \E i \in DOMAIN unsubscribes :
          /\ unsubscribe(unsubscribes[i].phase, unsubscribes[i].cb)
          /\ unsubscribes' = [unsubscribes EXCEPT ![i].called = TRUE]
    /\ UNCHANGED lifeInfo
    /\ Rest

LifeStart == start /\ Life("start") /\ UNCHANGED unsubscribes /\ Rest

LifeStop == stop /\ Life("stop") /\ UNCHANGED unsubscribes /\ Rest

LifePause == pause /\ Life("pause") /\ UNCHANGED unsubscribes /\ Rest

LifeResume == resume /\ Life("resume") /\ UNCHANGED unsubscribes /\ Rest

LifeTick ==
    /\ \E lag \in {0, FrameLag} : now - lag >= frameTime /\ loop(now - lag)
    /\ Life("loop")
    /\ UNCHANGED unsubscribes
    /\ Rest

LifeClock ==
    /\ TimePasses(2 * FixedDeltaTime + 30)
    /\ Life("clock")
    /\ UNCHANGED unsubscribes
    /\ Rest

SubscribeNext == Subscribe \/ Unsubscribe \/ Start \/ Tick \/ SteadyAdvance

SpecSubscribe == Init /\ [][SubscribeNext]_vars

LifecycleNext ==
    LifeStart \/ LifeStop \/ LifePause \/ LifeResume \/ LifeTick \/ LifeClock

SpecLifecycle == Init /\ [][LifecycleNext]_vars

(***************************************************************************)
(* Specification of a timed effect of the game logic (the ball save) next  *)
(* to the scheduler that is started, paused, resumed and ticked.           *)
(***************************************************************************)
Elsewhere == UNCHANGED << unsubscribes, lifeInfo, runs, physVars, smVars >>

StartBallSave == startBallSave /\ UNCHANGED loopVars /\ Elsewhere

BallSaveExpires == ballSaveExpires /\ UNCHANGED loopVars /\ Elsewhere

\* a frame; the fixed steps it runs are counted
TimedTick ==
    /\ \E lag \in {0, FrameLag} : now - lag >= frameTime /\ loop(now - lag)
    /\ saveInfo' = IF saveInfo.started /\ ~saveInfo.fired
                   THEN [saveInfo EXCEPT !.steps = @ + tickInfo'.steps]
                   ELSE saveInfo
    /\ UNCHANGED ballSave
    /\ Elsewhere

TimerNext ==
    \/ Start
    \/ Pause
    \/ Resume
    \/ TimedTick
    \/ ClockAdvance
    \/ StartBallSave
    \/ BallSaveExpires

SpecTimer == InitLoop /\ [][TimerNext]_vars

(***************************************************************************)
(* Specifications of the physics world: commands of the external rule      *)
(* logic in any order between the ticks.  SpecBall issues every command;   *)
(* SpecFlipper, the flipper commands.                                      *)
(***************************************************************************)
CreateBall == createBall /\ UNCHANGED << ctlVars, loopVars, runs, smVars >>

CreateBallInShooter == createBallInShooter /\ UNCHANGED << ctlVars, loopVars, runs, smVars >>

ApplyImpulse == ImpulseBall /\ UNCHANGED << ctlVars, loopVars, runs, smVars >>

LaunchBall == launchBall /\ UNCHANGED << ctlVars, loopVars, runs, smVars >>

EjectCapturedBall == Eject /\ UNCHANGED << ctlVars, loopVars, runs, smVars >>

Release == ReleaseBall /\ UNCHANGED << ctlVars, loopVars, runs, smVars >>

PressLeftFlipper == pressLeftFlipper /\ UNCHANGED << ctlVars, loopVars, runs, smVars >>

ReleaseLeftFlipper == releaseLeftFlipper /\ UNCHANGED << ctlVars, loopVars, runs, smVars >>

PressRightFlipper == pressRightFlipper /\ UNCHANGED << ctlVars, loopVars, runs, smVars >>

ReleaseRightFlipper == releaseRightFlipper /\ UNCHANGED << ctlVars, loopVars, runs, smVars >>

PhysicsTick == physicsUpdate /\ UNCHANGED << ctlVars, loopVars, runs, smVars >>

FlipperNext ==
    \/ PressLeftFlipper
    \/ ReleaseLeftFlipper
    \/ PressRightFlipper
    \/ ReleaseRightFlipper
    \/ PhysicsTick

SpecFlipper == Init /\ [][FlipperNext]_vars

BallNext ==
    \/ CreateBall
    \/ CreateBallInShooter
    \/ ApplyImpulse
    \/ LaunchBall
    \/ EjectCapturedBall
    \/ Release
    \/ PressLeftFlipper
    \/ ReleaseLeftFlipper
    \/ PressRightFlipper
    \/ ReleaseRightFlipper
    \/ PhysicsTick

SpecBall == Init /\ [][BallNext]_vars

CreateBallNearDrain == createBallNearDrain /\ UNCHANGED << ctlVars, loopVars, runs, smVars >>

CreateBallOnZone == createBallOnZone /\ UNCHANGED << ctlVars, loopVars, runs, smVars >>

ApplyImpulseIdle == ImpulseIdle /\ UNCHANGED << ctlVars, loopVars, runs, smVars >>

RemoveBall == removeBall /\ UNCHANGED << ctlVars, loopVars, runs, smVars >>

Reset == reset /\ UNCHANGED << ctlVars, loopVars, runs, smVars >>

\* balls above the drain: they fall, and the rule logic goes on commanding
DrainNext ==
    \/ CreateBallNearDrain
    \/ ApplyImpulseIdle
    \/ LaunchBall
    \/ PhysicsTick

SpecDrain == Init /\ [][DrainNext]_vars

\* balls created, lost and removed, and the world reset, over and over
IdNext ==
    \/ CreateBallNearDrain
    \/ RemoveBall
    \/ Reset
    \/ PhysicsTick

SpecIds == Init /\ [][IdNext]_vars

PhysicsTickListening ==
    physicsUpdateListening /\ UNCHANGED << ctlVars, loopVars, runs, smVars >>

\* balls dropped on the scoop while a listener of the contact signal ejects
ContactNext ==
    \/ CreateBall
    \/ RemoveBall
    \/ EjectCapturedBall
    \/ PhysicsTickListening

SpecContact == Init /\ [][ContactNext]_vars

\* balls put on the zones
ZoneNext ==
    \/ CreateBallOnZone
    \/ RemoveBall
    \/ PhysicsTick

SpecZone == Init /\ [][ZoneNext]_vars

(***************************************************************************)
(* Specification of the scheduler's arithmetic: two schedulers started at  *)
(* the same time get frames of the same display, one of them more of the   *)
(* frames than the other.                                                  *)
(***************************************************************************)
Frame64 ==
    /\ \E r \in Runs, k \in 1..MaxFrames : FrameD(r, k)
    /\ UNCHANGED << ctlVars, loopVars, physVars, smVars >>

SpecFloat == Init /\ [][Frame64]_vars

(***************************************************************************)
(* Properties of the scheduler                                             *)
(***************************************************************************)
\* the entries of a log that belong to one phase
OfPhase(log, phase) == SelectSeq(log, LAMBDA e : e.phase = phase)

\* a sequence repeated n times
RECURSIVE Repeat(_, _)
Repeat(seq, n) == IF n <= 0 THEN << >> ELSE seq \o Repeat(seq, n - 1)

\* the fixed steps a stretch of time is worth in one frame
Owed(time) ==
    IF time < 0 THEN 0
    ELSE (IF time > MaxAccumulator THEN MaxAccumulator ELSE time)
         \div FixedDeltaTime

\* C1: after the catch-up loop of every tick 0 <= accumulator < fixedStep, and
\* the alpha passed to every render callback satisfies 0 <= alpha < 1.
C1_AccumulatorAndAlphaInRange ==
    tickInfo.ran =>
        /\ ~tickInfo.paused =>
              (0 <= accumulator /\ accumulator < FixedDeltaTime)
        /\ \A i \in DOMAIN tickLog :
              tickLog[i].phase = "render" =>
                 /\ 0 <= tickLog[i].arg[1]
                 /\ tickLog[i].arg[1] < tickLog[i].arg[2]

\* C5: with no pause and no delta above maxAccumulator, the number of fixed
\* updates executed depends only on the elapsed time: two schedulers started
\* together whose latest frames have the same timestamp have executed the
\* same number of update(fixedStep) calls, however the time was split into
\* frames.
C5_UpdatesDependOnElapsedOnly ==
    \A r1, r2 \in Runs :
        runs[r1].lastTime = runs[r2].lastTime =>
            runs[r1].updates = runs[r2].updates

\* C6: in any single tick, whatever the delta, update callbacks are run for
\* at most maxAccumulator / fixedStep = 5 fixed steps.
C6_AtMostFiveStepsPerTick ==
    tickInfo.ran =>
        /\ tickInfo.steps <= MaxAccumulator \div FixedDeltaTime
        /\ Len(OfPhase(tickLog, "update"))
              <= (MaxAccumulator \div FixedDeltaTime) * Len(updateCallbacks)

C6_Witness ==
    /\ tickInfo.ran
    /\ tickInfo.delta >= Spike
    /\ tickInfo.steps = MaxAccumulator \div FixedDeltaTime
    /\ Len(OfPhase(tickLog, "update")) = MaxAccumulator \div FixedDeltaTime

\* C7: on a tick processed while paused no update and no lateUpdate callback
\* is invoked, the accumulator is unchanged, and every render callback is
\* invoked exactly once with alpha = accumulator / fixedStep.
C7_PausedTickOnlyRenders ==
    (tickInfo.ran /\ tickInfo.paused) =>
        /\ OfPhase(tickLog, "update") = << >>
        /\ OfPhase(tickLog, "lateUpdate") = << >>
        /\ tickInfo.steps = 0
        /\ accumulator = tickInfo.accBefore
        /\ tickLog = [i \in 1..Len(renderCallbacks) |->
                        [phase |-> "render", cb |-> renderCallbacks[i],
                         arg |-> << tickInfo.accBefore, FixedDeltaTime >>]]

C7_Witness ==
    /\ tickInfo.ran
    /\ tickInfo.paused
    /\ tickInfo.accBefore > 0
    /\ tickInfo.delta >= FixedDeltaTime
    /\ updateCallbacks # << >>
    /\ Len(tickLog) = 1

\* C8: resume() after pause() zeroes the accumulator and re-anchors the last
\* timestamp to the time of the call, so the first tick after it runs exactly
\* the fixed updates owed for the time since resume(), however long the pause.
C8_ResumeDropsPausedGap ==
    /\ pauseInfo.resumed =>
          (accumulator = 0 /\ lastTime = pauseInfo.resumedAt /\ ~isPaused)
    /\ (tickInfo.ran /\ tickInfo.afterResume) =>
          /\ tickInfo.accBefore = 0
          /\ tickInfo.delta = tickInfo.sinceResume
          /\ tickInfo.steps = Owed(tickInfo.sinceResume)

\* the pause outlasted the cap and was preceded by a carried remainder, and
\* the tick after resume() ran no step
C8_Witness ==
    /\ tickInfo.ran
    /\ tickInfo.afterResume
    /\ tickInfo.pausedFor >= Spike
    /\ tickInfo.sinceResume > 0
    /\ tickInfo.steps = 0

\* C9: a throwing update, lateUpdate or render callback stops nothing: every
\* registered callback of every phase of the tick is still invoked, the
\* accumulator is what the frame's delta makes it, and the next frame stays
\* scheduled.
C9_CallbackExceptionsIsolated ==
    (tickInfo.ran /\ ~tickInfo.paused) =>
        LET added == IF tickInfo.delta > MaxAccumulator
                     THEN MaxAccumulator ELSE tickInfo.delta
            total == tickInfo.accBefore + added
            steps == IF total < 0 THEN 0 ELSE total \div FixedDeltaTime
            entries(phase, cbs, arg) ==
                [i \in 1..Len(cbs) |->
                    [phase |-> phase, cb |-> cbs[i], arg |-> arg]]
        IN /\ accumulator = total - steps * FixedDeltaTime
           /\ tickLog =
                 Repeat(entries("update", updateCallbacks, FixedDeltaTime),
                        steps)
                 \o entries("lateUpdate", lateUpdateCallbacks, 0)
                 \o entries("render", renderCallbacks,
                            << accumulator, FixedDeltaTime >>)
           /\ frameId = Frame

\* a throwing update callback was followed by another callback in the tick
C9_Witness ==
    /\ tickInfo.ran
    /\ \E i, j \in DOMAIN tickLog :
          /\ i < j
          /\ tickLog[i].phase = "update"
          /\ Throws(tickLog[i].cb)
          /\ tickLog[j].phase \in {"update", "render"}
          /\ ~Throws(tickLog[j].cb)

(***************************************************************************)
(* Properties of the state machine, stated on the log of the latest call.  *)
(* Every transition() call of the log has a number (rid), given in the     *)
(* order of the calls; "begin" and "end" mark the try block of the one     *)
(* that executes.                                                          *)
(***************************************************************************)
\* where the log holds event ev of request rid
LogAt(ev, rid) ==
    {i \in DOMAIN callLog : callLog[i].ev = ev /\ callLog[i].rid = rid}

\* the transition() calls that found the busy flag set
Queued ==
    {i \in DOMAIN callLog :
        callLog[i].ev = "request" /\ callLog[i].note = "queued"}

\* the requests whose try block is running at position i of the log
InFlightAt(i) ==
    {callLog[b].rid : b \in {j \in DOMAIN callLog :
        /\ j < i
        /\ callLog[j].ev = "begin"
        /\ \A e \in LogAt("end", callLog[j].rid) : e > i}}

\* the onEnter / onExit invocations made for request rid, in order
HooksOf(rid) ==
    SelectSeq(callLog,
              LAMBDA e : e.rid = rid /\ e.ev \in {"onEnter", "onExit"})

RECURSIVE Reverse(_)
Reverse(seq) ==
    IF seq = << >> THEN << >> ELSE Append(Reverse(Tail(seq)), Head(seq))

\* C2: a transition requested from a hook while a transition is in flight is
\* not executed at the call; it is executed once, after the in-flight
\* transition has completed, and the queued requests are executed in the
\* order they were made, those made by a replayed transition after the ones
\* already queued.
C2_QueuedTransitionsReplayFifo ==
    \A i \in Queued :
        LET q == callLog[i].rid
        IN /\ Cardinality(LogAt("begin", q)) = 1
           /\ InFlightAt(i) # {}
           /\ \A r \in InFlightAt(i) :
                 \E e \in LogAt("end", r) :
                    \A b \in LogAt("begin", q) : i < e /\ e < b
           /\ \A j \in Queued :
                 i < j =>
                    \A b1 \in LogAt("begin", q),
                       b2 \in LogAt("begin", callLog[j].rid) : b1 < b2

\* three requests were queued in one call, the last of them by a hook of a
\* replayed transition while an earlier request was still waiting
C2_Witness ==
    /\ callInfo.op = "transition"
    /\ Cardinality(Queued) >= 3
    /\ \E i, j \in Queued :
          /\ i < j
          /\ \E e \in LogAt("end", 1) : i < e /\ e < j
          /\ \E k \in Queued :
                /\ k < j
                /\ \A b \in LogAt("begin", callLog[k].rid) : j < b

\* C3: transitions never execute nested: while one request executes (from
\* its first hook to its last hook and history record) no onExit / onEnter
\* hook and no history record of another request runs, and no other request
\* starts executing, whatever the hooks do.
C3_TransitionsNeverNest ==
    \A b, e \in DOMAIN callLog :
        ( /\ b < e
          /\ callLog[b].ev = "begin"
          /\ callLog[e].ev = "end"
          /\ callLog[b].rid = callLog[e].rid ) =>
            \A j \in (b + 1)..(e - 1) :
                callLog[j].ev \in {"onEnter", "onExit", "record", "begin",
                                   "end"}
                    => callLog[j].rid = callLog[b].rid

\* a hook in the middle of a transition requested another one, and both ran
\* hooks
C3_Witness ==
    \E i \in Queued :
        /\ \E r \in InFlightAt(i) :
              /\ \E h \in DOMAIN callLog :
                    h > i /\ callLog[h].rid = r
                          /\ callLog[h].ev \in {"onEnter", "onExit"}
              /\ \E e \in LogAt("end", r) : e > i
        /\ HooksOf(callLog[i].rid) # << >>

\* C4: on a transition to a registered root other than the current one,
\* onExit runs exactly once on each state of the current active chain, leaf
\* to root, all before the new root's onEnter; then the new root's onEnter
\* runs, followed by onEnter of the remaining path segments, root to leaf.
C4_RootChangeExitsChainOnce ==
    ( /\ callInfo.op = "transition"
      /\ ~callInfo.threw
      /\ callInfo.preState # None
      /\ Head(callInfo.arg) \in Roots
      /\ Head(callInfo.arg) # callInfo.preState ) =>
        LET hooks == HooksOf(1)
            n == Len(callInfo.preChain)
            exits == Reverse(callInfo.preChain)
            enters == SelectSeq(hooks, LAMBDA e : e.ev = "onEnter")
        IN /\ Len(hooks) > n
           /\ \A i \in 1..n :
                 hooks[i].ev = "onExit" /\ hooks[i].state = exits[i]
           /\ hooks[n + 1].ev = "onEnter"
           /\ hooks[n + 1].state = Head(callInfo.arg)
           /\ Len(enters) <= Len(callInfo.arg)
           /\ \A i \in DOMAIN enters : enters[i].state = callInfo.arg[i]

\* C10: an exception thrown by a state hook does not propagate out of start,
\* transition, sendEvent or update.
C10_HookExceptionsCaught == callInfo.op # "none" => ~callInfo.threw

\* C11: a transition whose first segment names no registered root leaves the
\* machine unchanged: the current root and its active chain are as before, no
\* onExit or onEnter hook is invoked, and no history entry is appended.
C11_UnknownRootChangesNothing ==
    ( /\ callInfo.op = "transition"
      /\ ~callInfo.threw
      /\ Head(callInfo.arg) \notin Roots ) =>
        /\ currentState = callInfo.preState
        /\ Chain(Machine(<< >>), currentState) = callInfo.preChain
        /\ \A i \in DOMAIN callLog :
              callLog[i].ev \notin {"onEnter", "onExit", "record"}

\* the longest prefix of a path whose segments are registered, each under the
\* one before it
RECURSIVE ValidPrefix(_, _)
ValidPrefix(path, under) ==
    IF path = << >> THEN << >>
    ELSE IF (under = None /\ Head(path) \in Roots)
            \/ (under # None /\ Head(path) \in Children(under))
         THEN << Head(path) >> \o ValidPrefix(Tail(path), Head(path))
         ELSE << >>

\* the hooks of the latest call all just returned
PlainCall ==
    \A i \in DOMAIN callLog : callLog[i].note \notin {"throw", "req"}

\* C12: in a multi-segment transition with a segment that names no child of
\* the state reached so far, the call does not throw, the segments before it
\* have been entered in order and none after it, and the machine rests at the
\* last valid ancestor, which is the deepest active state.
C12_UnknownChildStopsAtAncestor ==
    LET valid == ValidPrefix(callInfo.arg, None)
        enters == SelectSeq(HooksOf(1), LAMBDA e : e.ev = "onEnter")
        n == Len(valid)
    IN ( /\ callInfo.op = "transition"
         /\ PlainCall
         /\ callInfo.preState # None
         /\ n >= 1
         /\ n < Len(callInfo.arg) ) =>
           /\ ~callInfo.threw
           /\ Len(enters) >= n - 1
           /\ \A i \in 2..n :
                 enters[Len(enters) - n + i].state = valid[i]
           /\ Chain(Machine(<< >>), currentState) = valid

\* the onEvent invocations of the latest call, in order
EventHooks == SelectSeq(callLog, LAMBDA e : e.ev = "onEvent")

\* an onEvent invocation that returned true
Handled(e) == e.note \in {"handle", "req"}

UpdateHooks == SelectSeq(callLog, LAMBDA e : e.ev = "onUpdate")

C15_HistoryKeepsLatest20 ==
    LET k == Min(Len(recorded), MaxHistory)
    IN /\ Len(history) = k
       /\ Len(history) <= 20
       /\ \A i \in 1..k :
             history[i] = [state |-> recorded[Len(recorded) - k + i]]

\* 25 records were made and the ring holds the 6th to the 25th
C15_Witness ==
    /\ Len(recorded) = 25
    /\ Len(history) = 20
    /\ history[1].state = recorded[6]
    /\ history[20].state = recorded[25]
    /\ recorded[5] # recorded[6]

(***************************************************************************)
(* Claims about the physics world                                          *)
(***************************************************************************)
SamePlace(a, b) == a.x = b.x /\ a.y = b.y /\ a.vx = b.vx /\ a.vy = b.vy

\* C16: a captured ball has velocity (0,0), and no command or tick other
\* than a release changes its position or its velocity.
C16_CapturedBallPinned ==
    /\ \A i \in DOMAIN balls :
          balls[i].captured => balls[i].vx = 0 /\ balls[i].vy = 0
    /\ physInfo.op \notin {"none", "release", "eject"} =>
          \A i \in DOMAIN physInfo.balls :
              physInfo.balls[i].captured => SamePlace(balls[i], physInfo.balls[i])

\* C17: on the tick after release(vx, vy) of a captured ball the ball is
\* integrated from the held position with that velocity and is not captured
\* again by the zone it was released from.
C17_ReleaseResumesIntegration ==
    ( /\ physInfo.op = "update"
      /\ physInfo.released.i # 0
      /\ physInfo.released.captor # Null ) =>
        LET before == physInfo.balls[physInfo.released.i]
            after == balls[physInfo.released.i]
            moved == ballUpdate(before)
        IN /\ ~after.captured
           /\ after.capturedBy # physInfo.released.captor
           /\ after.vx = moved.vx /\ after.vy = moved.vy
           /\ after.x = before.x + moved.vx
           /\ after.y = before.y + moved.vy

Between(a, x, b) == (a <= x /\ x <= b) \/ (b <= x /\ x <= a)

\* C18: each flipper's angle is within the closed interval between its rest
\* angle and its max angle after every press, release and update.
C18_FlipperAngleInRange ==
    /\ Between(leftFlipper.restAngle, leftFlipper.angle, leftFlipper.maxAngle)
    /\ Between(rightFlipper.restAngle, rightFlipper.angle, rightFlipper.maxAngle)
    /\ leftFlipper.restAngle = -250 /\ leftFlipper.maxAngle = 200
    /\ rightFlipper.restAngle = 2050 /\ rightFlipper.maxAngle = 1600

\* an update left the left flipper part of the way back to rest and the right
\* flipper, pressed, at its max angle
C18_Witness ==
    /\ physInfo.op = "update"
    /\ ~leftFlipper.isPressed
    /\ leftFlipper.angle \notin {leftFlipper.restAngle, leftFlipper.maxAngle}
    /\ rightFlipper.isPressed
    /\ rightFlipper.angle = rightFlipper.maxAngle
    /\ physInfo.right.angle = rightFlipper.restAngle

\* C19: the left flipper pressed at its rest angle of -25 degrees is below
\* max angle for two ticks, at max angle after the third, never beyond it,
\* and stays there on every later tick while it is held.
C19_LeftFlipperReachesMaxInThreeTicks ==
    physInfo.held >= 0 =>
        /\ leftFlipper.isPressed
        /\ leftFlipper.angle <= leftFlipper.maxAngle
        /\ physInfo.held < 3 => leftFlipper.angle < leftFlipper.maxAngle
        /\ physInfo.held >= 3 => leftFlipper.angle = leftFlipper.maxAngle
        /\ physInfo.held = 0 => leftFlipper.angle = -250

\* held for five ticks, at max angle since the third
C19_Witness ==
    /\ physInfo.op = "update"
    /\ physInfo.held = 5
    /\ leftFlipper.angle = leftFlipper.maxAngle
    /\ physInfo.left.angle = leftFlipper.maxAngle

\* the flipper was pressed during the tick and the tick moved it toward max
PressSweep(before, after) ==
    /\ before.isPressed
    /\ Abs(after.maxAngle - after.angle) < Abs(before.maxAngle - before.angle)

\* C20: after a tick isMovingUp() is true (and a touching ball is kicked) only
\* if the flipper was pressed and the tick moved its angle toward max.
C20_MovingUpOnlyInPressSweep ==
    physInfo.op = "update" =>
        /\ isMovingUp(leftFlipper) => PressSweep(physInfo.left, leftFlipper)
        /\ isMovingUp(rightFlipper) => PressSweep(physInfo.right, rightFlipper)

(***************************************************************************)
(* Further claims about the scheduler                                      *)
(***************************************************************************)
PhaseRank(phase) ==
    IF phase = "update" THEN 1 ELSE IF phase = "lateUpdate" THEN 2 ELSE 3

\* C28: in a non-paused tick the update steps come first, each with
\* dt = fixedStep, then every lateUpdate callback once (also after zero
\* steps), then every render callback once.
C28_PhasesInOrder ==
    (tickInfo.ran /\ ~tickInfo.paused) =>
        /\ \A i, j \in DOMAIN tickLog :
              i < j => PhaseRank(tickLog[i].phase) <= PhaseRank(tickLog[j].phase)
        /\ \A i \in DOMAIN tickLog :
              tickLog[i].phase = "update" => tickLog[i].arg = FixedDeltaTime
        /\ Len(OfPhase(tickLog, "update")) = tickInfo.steps * Len(updateCallbacks)
        /\ Len(OfPhase(tickLog, "lateUpdate")) = Len(lateUpdateCallbacks)
        /\ Len(OfPhase(tickLog, "render")) = Len(renderCallbacks)

\* a tick without a fixed step still ran lateUpdate, then render
C28_Witness ==
    /\ tickInfo.ran
    /\ ~tickInfo.paused
    /\ tickInfo.steps = 0
    /\ Len(tickLog) = 2
    /\ tickLog[1].phase = "lateUpdate"
    /\ tickLog[2].phase = "render"

\* C29: when the catch-up loop starts consuming, the accumulator (the carried
\* remainder plus the new delta) is at most maxAccumulator.
C29_AccumulatorCappedBeforeConsuming ==
    (tickInfo.ran /\ ~tickInfo.paused) =>
        tickInfo.accBefore + Accumulate(tickInfo.delta) <= MaxAccumulator

(***************************************************************************)
(* Further claims about the state machine                                  *)
(***************************************************************************)
\* the positions of the log where the hook ev of state s ran
HookAt(ev, s) ==
    {i \in DOMAIN callLog : callLog[i].ev = ev /\ callLog[i].state = s}

\* C30: within a call, a state's onExit is never invoked twice without an
\* onEnter of that state in between, and every state of the active chain
\* whose hooks ran was entered after it was last exited.
C30_EnterExitAlternate ==
    \A s \in States :
        /\ \A i, j \in HookAt("onExit", s) :
              i < j => \E k \in HookAt("onEnter", s) : i < k /\ k < j
        /\ \A i \in DOMAIN Chain(Machine(<< >>), currentState) :
              Chain(Machine(<< >>), currentState)[i] = s =>
                  \A x \in HookAt("onExit", s) :
                      \E k \in HookAt("onEnter", s) : x < k

(***************************************************************************)
(* Claims about the scheduler's interface                                  *)
(***************************************************************************)
\* C26: a stop() that follows a stop() leaves every field as the first left
\* it, and resume() when not paused changes no field and emits nothing.
C26_LifecycleIdempotent ==
    /\ (lifeInfo.op = "stop" /\ lifeInfo.prevOp = "stop") =>
          Fields = lifeInfo.before
    /\ (lifeInfo.op = "resume" /\ ~lifeInfo.before.isPaused) =>
          Fields = lifeInfo.before /\ lifeInfo.emitted = << >>

\* resume() was called on a running scheduler that is not paused, some time
\* after its latest frame, in a run that also made two stop() calls in a row
C26_Witness ==
    /\ lifeInfo.op = "resume"
    /\ ~lifeInfo.before.isPaused
    /\ lifeInfo.before.isRunning
    /\ lifeInfo.before.accumulator > 0
    /\ now > lifeInfo.before.lastTime
    /\ lifeInfo.stopTwice

CallbackList(phase) ==
    IF phase = "update" THEN updateCallbacks
    ELSE IF phase = "lateUpdate" THEN lateUpdateCallbacks
    ELSE renderCallbacks

\* the registrations of callback cb for the phase whose unsubscribe function
\* has not been called
Live(phase, cb) ==
    {i \in DOMAIN unsubscribes :
        /\ unsubscribes[i].phase = phase
        /\ unsubscribes[i].cb = cb
        /\ ~unsubscribes[i].called}

\* C27: an unsubscribe function removes the registration that returned it and
\* no other, also when it is called again: each callback is on a list (and is
\* invoked by a tick) once for every registration of it whose unsubscribe
\* function has not been called.
C27_UnsubscribeRemovesOwnRegistration ==
    \A phase \in Phases3, cb \in CallbackFns :
        /\ Len(SelectSeq(CallbackList(phase), LAMBDA f : f = cb))
              = Cardinality(Live(phase, cb))
        /\ (tickInfo.ran /\ phase = "render") =>
              Len(SelectSeq(tickLog, LAMBDA e : e.phase = phase /\ e.cb = cb))
                  = Cardinality(Live(phase, cb))

\* the fixed steps that make up the time of the ball save
DueSteps ==
    (BALL_SAVE_TIME * TicksPerMs + FixedDeltaTime - 1) \div FixedDeltaTime

\* C25: a timed effect does not fire while the scheduler is paused, and it
\* fires when the fixed-step clock has run the steps of its duration.
C25_TimedEffectsOnFixedClock ==
    saveInfo.fired =>
        /\ ~saveInfo.firedPaused
        /\ saveInfo.firedAtStep = DueSteps

\* C21: a zero-distance overlap never produces NaN: at the end of a tick the
\* position and the velocity of every ball are finite numbers, also when the
\* ball's centre is exactly the centre of a circle zone.
C21_NoNaNAfterTick ==
    physInfo.op = "update" => \A i \in DOMAIN balls : ~balls[i].nan

\* the ball's distance from the zone is less than its radius by more than
\* a tenth of a pixel
Embedded(b, zone) ==
    LET cx == IF zone.type = "circle" THEN zone.x ELSE Closest(b, zone)[1]
        cy == IF zone.type = "circle" THEN zone.y ELSE Closest(b, zone)[2]
        need == BALL_RADIUS + zone.radius - 100
    IN /\ Abs(b.x - cx) < need
       /\ Abs(b.y - cy) < need
       /\ (b.x - cx) * (b.x - cx) < need * need - (b.y - cy) * (b.y - cy)

\* C22: at the end of every physics tick no active, non-captured ball is
\* embedded in a shape: its distance from every collision zone is at least
\* its radius, also when its centre was inside a rectangle.  (In the parts of
\* the table the model follows a ball in, a ball can be within a zone only
\* when the tick tested the ball against that zone and found an overlap.)
C22_NeverEmbeddedAtTickEnd ==
    physInfo.op = "update" =>
        \A i \in DOMAIN balls : \A k \in DOMAIN CollisionZones :
            (balls[i].active /\ ~balls[i].captured /\ ~balls[i].nan) =>
                ~Embedded(balls[i], CollisionZones[k])

\* how many BALL_DRAINED signals carried the id
RECURSIVE DrainCount(_, _)
DrainCount(id, k) ==
    IF k > Len(physInfo.drained) THEN 0
    ELSE (IF physInfo.drained[k] = id THEN 1 ELSE 0) + DrainCount(id, k + 1)

C24_IdsNeverReused ==
    \A i, j \in DOMAIN physInfo.issued :
        i # j => physInfo.issued[i] # physInfo.issued[j]

\* the flipper went from before to after in one tick as the sweep says: no
\* farther from the target, and either by the speed of its sweep or onto the
\* target from no more than that speed away
SweptToward(before, after) ==
    LET speed == IF before.isPressed THEN FLIPPER_ANGULAR_VEL
                                     ELSE (FLIPPER_ANGULAR_VEL * 6) \div 10
        was == Abs(before.targetAngle - before.angle)
        is == Abs(before.targetAngle - after.angle)
    IN /\ is <= was
       /\ \/ was - is = speed
          \/ after.angle = before.targetAngle /\ was <= speed

\* C32: for both the left and the right flipper, each update tick moves the
\* angle toward the target and never away from it, by the strike angular
\* speed while pressed and by 60% of it while released, snapping exactly to
\* the target once within epsilon or on overshoot.
C32_BothFlippersSweepTowardTarget ==
    physInfo.op = "update" =>
        /\ SweptToward(physInfo.left, leftFlipper)
        /\ SweptToward(physInfo.right, rightFlipper)

\* the ball's centre is its own closest point of the rectangle
Inside(b, zone) == Closest(b, zone) = << b.x, b.y >>

\* C33: when the ball centre coincides with the closest point of a rectangle
\* zone (the centre is inside the rectangle), push-out and reflection use
\* exactly the zone's declared normal (zone.normal.x, zone.normal.y), for
\* every declared normal, the horizontal ones included.
C33_RectFallbackIsDeclaredNormal ==
    physInfo.op = "update" =>
        \A i \in DOMAIN balls \cap DOMAIN physInfo.balls :
        \A k \in DOMAIN CollisionZones :
            LET before == physInfo.balls[i]
                zone == CollisionZones[k]
            IN (/\ before.active /\ ~before.captured /\ ~before.nan
                /\ zone.type = "rect"
                /\ Inside(ballUpdate(before), zone)) =>
                   balls[i] = Bounce(ballUpdate(before), 1000 * zone.normal[1],
                                     1000 * zone.normal[2], BALL_RADIUS, 0)

\* the point of the zone the ball is pushed away from
Contact(b, zone) ==
    IF zone.type = "circle" THEN << zone.x, zone.y >> ELSE Closest(b, zone)

\* the velocity of after along the normal of b's contact with the zone, in
\* 1/1000000 px per tick
AlongNormal(b, zone, after) ==
    LET dx == b.x - Contact(b, zone)[1]
        dy == b.y - Contact(b, zone)[2]
        dist == Sqrt(dx * dx + dy * dy)
    IN after.vx * RoundDiv(dx * 1000, dist) + after.vy * RoundDiv(dy * 1000, dist)

\* C37: after a collision with a zone has been resolved, the ball's velocity
\* component along the contact normal is non-negative, whatever its incoming
\* direction (to within 0.002 px per tick of rounding): the ball is not sent
\* back into the shape it was pushed out of.
C37_LeavesAlongContactNormal ==
    physInfo.op = "update" =>
        \A i \in DOMAIN balls \cap DOMAIN physInfo.balls :
        \A k \in DOMAIN CollisionZones :
            LET before == physInfo.balls[i]
                zone == CollisionZones[k]
                hit == ballUpdate(before)
            IN (/\ before.active /\ ~before.captured /\ ~before.nan
                /\ ~zone.capturesBall
                /\ checkZoneCollision(hit, zone)
                /\ Contact(hit, zone) # << hit.x, hit.y >>) =>
                   AlongNormal(hit, zone, balls[i]) >= -2000

\* C38: no active ball is ever lost: an active, non-captured ball never ends a
\* tick with its centre right of the right edge or below the bottom edge of
\* the playfield; the drain has deactivated it in that tick.
C38_NoActiveBallBeyondBounds ==
    physInfo.op = "update" =>
        \A i \in DOMAIN balls :
            (balls[i].active /\ ~balls[i].captured /\ ~balls[i].nan) =>
                /\ balls[i].x <= bounds.right
                /\ balls[i].y <= bounds.bottom

\* C39: when a ball hits a capturing zone, the capture is in effect when the
\* contact signal is delivered: an eject issued at once by a listener of that
\* signal acts on the captured ball, so no ball ends the tick newly captured
\* with the eject of its contact already spent.
C39_EjectOnContactActsOnCapturedBall ==
    (physInfo.op = "update" /\ physInfo.spent > 0) =>
        \A i \in DOMAIN balls \cap DOMAIN physInfo.balls :
            ~(balls[i].captured /\ ~physInfo.balls[i].captured)

\* how many times x occurs in seq
Occurrences(seq, x) == Cardinality({ i \in DOMAIN seq : seq[i] = x })

\* C35: every callback that is registered when a dispatch phase begins and
\* is not itself unsubscribed is invoked exactly once in that phase, even if
\* another callback calls an unsubscribe function while the phase is running.
C35_RegisteredCallbacksInvokedOnce ==
    tickInfo.ran =>
        \A d \in DOMAIN tickInfo.dispatches :
            \A cb \in ActingFns :
                Occurrences(tickInfo.dispatches[d].removed, cb) = 0 =>
                    Occurrences(tickInfo.dispatches[d].invoked, cb)
                        = Occurrences(tickInfo.dispatches[d].atStart, cb)

\* C36: once pause() or stop() has been called, also from inside an update
\* callback during a catch-up of several steps, no further update callback
\* is invoked until resume() or start() is called.
C36_NoUpdateAfterPauseOrStop ==
    \A n \in DOMAIN tickLog :
        tickLog[n].phase = "update" => ~tickLog[n].halted

\* C34: update(dt) never invokes onUpdate on a state that is not active at
\* the moment of the call: when an ancestor's onUpdate triggers a transition
\* that exits a descendant or changes the root, the exited states do not
\* receive onUpdate in that same update pass.
C34_UpdateOnlyActiveStates ==
    callInfo.op = "update" =>
        \A n \in DOMAIN callLog :
            callLog[n].ev = "onUpdate" => callLog[n].active

\* C40: whenever no transition() call is executing, the busy flag is false
\* and the queue of deferred transitions is empty, also after a hook threw
\* during a transition or during the replay of a queued transition.
C40_IdleMachineNotBusyQueueEmpty ==
    ~transitioning /\ eventQueue = << >>

\* a call in which a transition was queued and a hook threw after that
C40_Witness ==
    /\ callInfo.threw
    /\ \E i, j \in DOMAIN callLog :
           /\ i < j
           /\ callLog[i].ev = "request" /\ callLog[i].note = "queued"
           /\ callLog[j].note = "throw"
           /\ callLog[j].rid = callLog[i].rid

\* the latest call was transition(path) with the current root as the first
\* segment of path
WithinRoot ==
    /\ callInfo.op = "transition"
    /\ callInfo.preState # None
    /\ callInfo.arg[1] = callInfo.preState

\* the segments after the root, up to the first that names no child
Named == ValidPrefix(Tail(callInfo.arg), callInfo.preState)

\* the onExit and onEnter invocations of the call's own transition, as
\* pairs of hook and state
OwnHooks ==
    LET hs == HooksOf(callLog[1].rid)
    IN [i \in DOMAIN hs |-> << hs[i].ev, hs[i].state >>]

====
